---- MODULE Spec2Model ----
(***************************************************************************)
(* A model of the 2D shapes layer: the flattened shape collection          *)
(* (ShapesList), the stroke triangulator (path_triangulate), the mesh hit  *)
(* tests of the layer (Shapes._shape_at, Shapes._shapes_in_box) and the    *)
(* mode setters of the Shapes and Labels layers (Shapes.mode,              *)
(* _finish_drawing, Labels.mode).                                          *)
(*                                                                         *)
(* Numbers.  Points are pairs <<x, y>> of integers.  The stroke offsets    *)
(* that path_triangulate returns are multiples of 1/2 for the paths used   *)
(* here (axis-aligned segments), so an offset is stored as twice its value *)
(* and a mesh vertex as twice its value: mesh vertex = 2*center +          *)
(* edge_width * (2*offset).  Python's 0-based sequences are kept 0-based   *)
(* in every index the code stores (triangle indices, shape indices);       *)
(* At(s, k) reads position k of a 0-based array.                           *)
(***************************************************************************)
EXTENDS Integers, Sequences, FiniteSets, TLC

\* ------------------------------------------------------------------ helpers

At(s, k) == s[k + 1]

Abs(x) == IF x < 0 THEN -x ELSE x

Sign(x) == IF x > 0 THEN 1 ELSE IF x < 0 THEN -1 ELSE 0

Range(s) == {s[k] : k \in DOMAIN s}

Repeat(v, n) == [k \in 1..n |-> v]

\* numpy boolean-mask selection a[mask]: the entries of s at the positions in keep
RECURSIVE MaskFrom(_, _, _)
MaskFrom(s, keep, k) ==
    IF k > Len(s) THEN <<>>
    ELSE IF k \in keep THEN <<s[k]>> \o MaskFrom(s, keep, k + 1)
    ELSE MaskFrom(s, keep, k + 1)

Mask(s, keep) == MaskFrom(s, keep, 1)

RECURSIVE SumSeq(_)
SumSeq(s) == IF s = <<>> THEN 0 ELSE Head(s) + SumSeq(Tail(s))

SeqMax(s) == CHOOSE x \in Range(s) : \A y \in Range(s) : y <= x

\* A 2D vector whose coordinates are NaN (the float result of 0/0): numpy
\* raises nothing on a division by zero, the NaN spreads through the arithmetic
\* and every comparison with it is False
NaNVec == <<>>
IsNaN(p) == p = NaNVec

\* 2D vector arithmetic
VAdd(p, q) == IF IsNaN(p) \/ IsNaN(q) THEN NaNVec ELSE <<p[1] + q[1], p[2] + q[2]>>
VSub(p, q) == IF IsNaN(p) \/ IsNaN(q) THEN NaNVec ELSE <<p[1] - q[1], p[2] - q[2]>>
VScale(c, p) == IF IsNaN(p) THEN NaNVec ELSE <<c * p[1], c * p[2]>>
VNeg(p) == IF IsNaN(p) THEN NaNVec ELSE <<-p[1], -p[2]>>
Dot(p, q) == p[1] * q[1] + p[2] * q[2]
\* np.cross of two 2D vectors
Cross(p, q) == p[1] * q[2] - p[2] * q[1]
\* np.linalg.norm: exact when the length is a whole number, as it is for the
\* segments along an axis, and rounded down otherwise (the stroke of a slanted
\* segment is then approximate)
Norm(p) == CHOOSE n \in 0..(Abs(p[1]) + Abs(p[2])) : n * n <= Dot(p, p) /\ Dot(p, p) < (n + 1) * (n + 1)
\* vector / scalar: 0/0 is NaN (no other division by zero occurs: a miter's
\* divisor is 0 only when the miter is the zero vector, a normal's only when
\* the segment has no length)
VDiv(p, c) == IF IsNaN(p) \/ c = 0 THEN NaNVec ELSE <<p[1] \div c, p[2] \div c>>

\* ------------------------------------------------------- stroke triangulation

\* default of path_triangulate's limit parameter
limit == 5

segment_normal(a, b) ==
    LET d == VSub(b, a)
        normal == <<d[2], -d[1]>>
    IN IF IsNaN(d) THEN NaNVec ELSE VDiv(normal, Norm(normal))

\* the unit normals of the path's segments (0-based list "normals")
PathNormals(path, closed) ==
    LET n == Len(path)
    IN IF closed
       THEN LET full == <<path[n]>> \o path \o <<path[1]>>
            IN [k \in 1..n |-> segment_normal(full[k], full[k + 1])]
       ELSE LET full == path \o <<path[n - 1]>>
                raw == [k \in 1..n |-> segment_normal(full[k], full[k + 1])]
            IN [k \in 1..n |-> IF k = n THEN VNeg(raw[k]) ELSE raw[k]]

FullPath(path, closed) == IF closed THEN path \o <<path[1]>> ELSE path

ExtendNormals(normals, closed) ==
    IF closed THEN normals \o <<normals[1]>> ELSE <<normals[1]>> \o normals

FullNormals(path, closed) == ExtendNormals(PathNormals(path, closed), closed)

\* the sum of the adjacent normals fn[k], fn[k+1] (twice their mean); the mean of
\* the one-element slice at the end of a closed path is that element
NormalSum(fn, k) == IF k + 1 <= Len(fn) THEN VAdd(fn[k], fn[k + 1]) ELSE VScale(2, fn[k])

\* mean / dot(mean, normal), written on the doubled mean: sum / dot(sum, normal)
MiterOf(sum, normal) ==
    IF IsNaN(sum) \/ IsNaN(normal) THEN NaNVec ELSE VDiv(sum, Dot(sum, normal))

MitersOf(fn, len) == [k \in 1..len |-> MiterOf(NormalSum(fn, k), fn[k])]

\* miters before the halving of line 438 (that is, the doubled final miters)
Miters(path, closed) == MitersOf(FullNormals(path, closed), Len(FullPath(path, closed)))

\* miter_lengths[i] > limit, on the squares
TooLong(miter) == ~IsNaN(miter) /\ Dot(miter, miter) > limit * limit

\* the two triangles joining the vertex pair at m to the pair (p, q), in the
\* orientation the cross-product test picks; offsets vo are doubled, so the
\* point subtracted from them is doubled too
JoinFaces(vo, prev, cur, m, mid, p, q) ==
    LET a == VSub(At(vo, m + 1), VScale(2, prev))
        b == VSub(At(vo, p), VScale(2, prev))
        ray == VSub(cur, prev)
    IN IF ~IsNaN(a) /\ ~IsNaN(b) /\ ~IsNaN(ray) /\ Cross(a, ray) * Cross(b, ray) > 0
       THEN << <<m, m + 1, p>>, <<m, mid, q>> >>
       ELSE << <<m, m + 1, p>>, <<m + 1, mid, q>> >>

\* the three offsets of a bevel corner (doubled)
BevelOffsets(miter, normal) ==
    IF IsNaN(miter) \/ IsNaN(normal) THEN <<NaNVec, NaNVec, NaNVec>>
    ELSE LET perp == <<miter[2], -miter[1]>>
             offset == VDiv(perp, Norm(perp))
             flip == Sign(Dot(offset, normal))
         IN << offset, VScale(-flip, miter), VNeg(offset) >>

\* vertex_offsets and central_path grow by the pair (-miter, miter) at point
PushMiter(st, point, miter) ==
    [st EXCEPT !.vo = @ \o <<VNeg(miter), miter>>, !.cp = @ \o <<point, point>>]

\* lines 487-504: a bevel corner inside the path appends its three offsets and
\* nothing to central_path
PushBevel(st, miter, normal) ==
    [st EXCEPT !.vo = @ \o BevelOffsets(miter, normal)]

\* the two triangles from the pair at st.m to the offsets just appended
Join(st, prev, cur) ==
    [st EXCEPT !.faces = @ \o JoinFaces(st.vo, prev, cur, st.m, st.m + 2, st.m + 3, st.m + 3)]

\* lines 445-461, i = 0: a bevel triangle on a closed path, else the first pair
FirstStep(st, point, miter, normal, wide) ==
    IF wide
    THEN [m |-> st.m + 1,
          vo |-> st.vo \o BevelOffsets(miter, normal),
          cp |-> st.cp \o <<point, point, point>>,
          faces |-> st.faces \o << <<0, 1, 2>> >>]
    ELSE PushMiter(st, point, miter)

\* lines 462-474, i = len - 1 on a closed path: the strip is joined to vertices 0, 1
CloseStep(st, prev, cur) ==
    [st EXCEPT !.faces = @ \o JoinFaces(st.vo, prev, cur, st.m, 0, 1, 1)]

\* lines 475-486, i = len - 1 on an open path: the last pair and its two triangles
LastStep(st, prev, cur, miter) == Join(PushMiter(st, cur, miter), prev, cur)

\* lines 487-504: the bevel corner, its join and its own triangle
BevelStep(st, prev, cur, miter, normal) ==
    [Join(PushBevel(st, miter, normal), prev, cur) EXCEPT
        !.faces = @ \o << <<st.m + 2, st.m + 3, st.m + 4>> >>,
        !.m = @ + 3]

\* the miter corner without the m = m + 2 of line 519
MiterStepKeepsM(st, prev, cur, miter) == Join(PushMiter(st, cur, miter), prev, cur)

\* lines 505-519: the miter corner and its join
MiterStep(st, prev, cur, miter) ==
    [Join(PushMiter(st, cur, miter), prev, cur) EXCEPT !.m = @ + 2]

\* one pass of the loop body for step i; st = [m, vo, cp, faces]
TriStep(fp, fn, mit, closed, bevel, i, st, len) ==
    IF i = 0
    THEN FirstStep(st, At(fp, 0), At(mit, 0), At(fn, 0),
                   (bevel \/ TooLong(At(mit, 0))) /\ closed)
    ELSE IF i = len - 1
    THEN IF closed THEN CloseStep(st, At(fp, i - 1), At(fp, i))
         ELSE LastStep(st, At(fp, i - 1), At(fp, i), At(mit, i))
    ELSE IF bevel \/ TooLong(At(mit, i))
    THEN BevelStep(st, At(fp, i - 1), At(fp, i), At(mit, i), At(fn, i))
    ELSE MiterStep(st, At(fp, i - 1), At(fp, i), At(mit, i))

RECURSIVE TriLoop(_, _, _, _, _, _, _, _)
\* the loop of lines 443-519 from step i on
TriLoop(fp, fn, mit, closed, bevel, i, st, len) ==
    IF i >= len THEN st
    ELSE TriLoop(fp, fn, mit, closed, bevel, i + 1,
                 TriStep(fp, fn, mit, closed, bevel, i, st, len), len)

\* line 521: the arrays returned
TriResult(st) == [centers |-> st.cp, offsets |-> st.vo, faces |-> st.faces]

\* path_triangulate(path, closed, limit=5, bevel): centers, doubled offsets, faces
path_triangulate(path, closed, bevel) ==
    TriResult(TriLoop(FullPath(path, closed), FullNormals(path, closed),
                      Miters(path, closed), closed, bevel, 0,
                      [m |-> 0, vo |-> <<>>, cp |-> <<>>, faces |-> <<>>],
                      Len(FullPath(path, closed))))

\* ------------------------------------------------------------------- Shape

\* opacities are counted in tenths: the opacity 1.0 of lines 73 and 222
OpacityOne == 10

\* A Shape object: its kind, its vertices (for a rectangle the 4 expanded
\* corners) and its style.  The meshes a Shape caches are functions of these
\* fields and are computed where they are read.
Shape(shape_type, data, edge_width, edge_color, face_color, z_order) ==
    [shape_type |-> shape_type, data |-> data, edge_width |-> edge_width,
     edge_color |-> edge_color, face_color |-> face_color, z_order |-> z_order,
     opacity |-> OpacityOne]

Min(a, b) == IF a < b THEN a ELSE b
Max(a, b) == IF a > b THEN a ELSE b

\* _expand_rectangle with the minimum taken where the maximum belongs
ExpandRectangleMinOnly(corners) ==
    LET x0 == Min(corners[1][1], corners[2][1])
        y0 == Min(corners[1][2], corners[2][2])
        y1 == Max(corners[1][2], corners[2][2])
    IN << <<x0, y0>>, <<x0, y0>>, <<x0, y1>>, <<x0, y1>> >>

\* the 4 corners of a rectangle given by two opposite corners
_expand_rectangle(corners) ==
    LET x0 == Min(corners[1][1], corners[2][1])
        x1 == Max(corners[1][1], corners[2][1])
        y0 == Min(corners[1][2], corners[2][2])
        y1 == Max(corners[1][2], corners[2][2])
    IN << <<x0, y0>>, <<x1, y0>>, <<x1, y1>>, <<x0, y1>> >>

\* rectangles, ellipses and polygons are stroked as closed loops, lines and
\* paths as open; an ellipse in the collection is meshed over its 4 corners
IsClosed(shape) == shape.shape_type \in {"rectangle", "ellipse", "polygon"}

EdgeMesh(shape) == path_triangulate(shape.data, IsClosed(shape), FALSE)

_edge_vertices(shape) == EdgeMesh(shape).centers
_edge_offsets(shape) == EdgeMesh(shape).offsets
_edge_triangles(shape) == EdgeMesh(shape).faces

\* the fill mesh: none for lines and paths, the corners for a rectangle
_face_vertices(shape) ==
    IF shape.shape_type \in {"rectangle", "ellipse", "polygon"} THEN shape.data ELSE <<>>

\* a fan for a (convex) polygon, which for the 4 corners of a rectangle is
\* its two triangles [0, 1, 2] and [0, 2, 3]
_face_triangles(shape) ==
    CASE shape.shape_type \in {"rectangle", "ellipse", "polygon"} ->
            [k \in 1..(Len(shape.data) - 2) |-> <<0, k, k + 1>>]
      [] OTHER -> <<>>

\* --------------------------------------------------------------- ShapesList

\* the collection after __init__ and before any shape is added
EmptyList ==
    [shapes |-> <<>>, _vertices |-> <<>>, _index |-> <<>>, _z_order |-> <<>>,
     _mesh_vertices |-> <<>>, _mesh_vertices_index |-> <<>>,
     _mesh_triangles |-> <<>>, _mesh_triangles_index |-> <<>>,
     _mesh_triangles_colors |-> <<>>, _mesh_triangles_z_order |-> <<>>]

\* centers + edge_width*offsets, doubled
StrokeVertices(mesh, edge_width) ==
    [k \in 1..Len(mesh.offsets) |->
        VAdd(VScale(2, mesh.centers[k]), VScale(edge_width, mesh.offsets[k]))]

\* shape._edge_vertices + shape.edge_width*shape._edge_offsets, doubled
EdgeMeshVertices(shape) == StrokeVertices(EdgeMesh(shape), shape.edge_width)

\* shape._face_vertices, doubled
Doubled(points) == [k \in 1..Len(points) |-> VScale(2, points[k])]

FaceMeshVertices(shape) == Doubled(_face_vertices(shape))

\* add without the offsets of lines 63 and 80: the triangles keep their local
\* indices
NoShiftTriangles(triangles, m) == triangles

ShiftTriangles(triangles, m) ==
    [k \in 1..Len(triangles) |->
        <<triangles[k][1] + m, triangles[k][2] + m, triangles[k][3] + m>>]

\* lines 53-88 of add: the vertices of the shape, then its edge mesh (ev, et),
\* then its face mesh (fv, ft) are appended under shape_index; m is the number
\* of mesh vertices before the call
AppendMeshes(S, shape, shape_index, m, ev, et, fv, ft) ==
    [S EXCEPT
       !._vertices = @ \o shape.data,
       !._index = @ \o Repeat(shape_index, Len(shape.data)),
       !._mesh_vertices = @ \o ev \o fv,
       !._mesh_vertices_index =
           @ \o Repeat(<<shape_index, 1>>, Len(ev)) \o Repeat(<<shape_index, 0>>, Len(fv)),
       !._mesh_triangles = @ \o ShiftTriangles(et, m) \o ShiftTriangles(ft, m + Len(ev)),
       !._mesh_triangles_index =
           @ \o Repeat(<<shape_index, 1>>, Len(et)) \o Repeat(<<shape_index, 0>>, Len(ft)),
       !._mesh_triangles_colors =
           @ \o Repeat(shape.edge_color, Len(et)) \o Repeat(shape.face_color, Len(ft)),
       !._mesh_triangles_z_order =
           @ \o Repeat(shape.z_order, Len(et)) \o Repeat(shape.z_order, Len(ft))]

AppendShape(S, shape, shape_index) ==
    AppendMeshes(S, shape, shape_index, Len(S._mesh_vertices),
                 EdgeMeshVertices(shape), _edge_triangles(shape),
                 FaceMeshVertices(shape), _face_triangles(shape))

\* add(shape): shape_index is None, the shape is appended
add(S, shape) ==
    AppendShape([S EXCEPT !.shapes = Append(@, shape),
                          !._z_order = Append(@, shape.z_order)],
                shape, Len(S.shapes))

\* add(shape, shape_index=i): the shape replaces the one at slot i
add_at(S, shape, shape_index) ==
    AppendShape([S EXCEPT !.shapes[shape_index + 1] = shape,
                          !._z_order[shape_index + 1] = shape.z_order],
                shape, shape_index)

\* remove_all without line 110: the per-shape z order array is kept
RemoveAllKeepZOrder(S) == [EmptyList EXCEPT !._z_order = S._z_order]

remove_all(S) == EmptyList

\* 0-based positions of the mesh vertices of shape index (np.where(np.invert(indices))[0])
RemovedMeshVertices(S, index) ==
    {k - 1 : k \in {j \in DOMAIN S._mesh_vertices_index : S._mesh_vertices_index[j][1] = index}}

SetMin(T) == CHOOSE x \in T : \A y \in T : x <= y

\* remove_one without line 137: the triangle colors are not masked
MaskRowsKeepColors(S, keepV, keepT, keepM) ==
    [S EXCEPT
       !._vertices = Mask(@, keepV),
       !._index = Mask(@, keepV),
       !._mesh_triangles = Mask(@, keepT),
       !._mesh_triangles_z_order = Mask(@, keepT),
       !._mesh_triangles_index = Mask(@, keepT),
       !._mesh_vertices = Mask(@, keepM),
       !._mesh_vertices_index = Mask(@, keepM)]

MaskRows(S, keepV, keepT, keepM) ==
    [S EXCEPT
       !._vertices = Mask(@, keepV),
       !._index = Mask(@, keepV),
       !._mesh_triangles = Mask(@, keepT),
       !._mesh_triangles_colors = Mask(@, keepT),
       !._mesh_triangles_z_order = Mask(@, keepT),
       !._mesh_triangles_index = Mask(@, keepT),
       !._mesh_vertices = Mask(@, keepM),
       !._mesh_vertices_index = Mask(@, keepM)]

\* lines 130-145: the rows of shape index are masked out of every array
RemoveRows(S, index) ==
    MaskRows(S, {k \in DOMAIN S._index : S._index[k] # index},
             {k \in DOMAIN S._mesh_triangles_index : S._mesh_triangles_index[k][1] # index},
             {k \in DOMAIN S._mesh_vertices_index : S._mesh_vertices_index[k][1] # index})

\* line 147: every triangle index above the first removed position is lowered
\* by the number of removed mesh vertices
LowerTriangles(triangles, first, count) ==
    LET low(t) == IF t > first THEN t - count ELSE t
    IN [k \in 1..Len(triangles) |->
          <<low(triangles[k][1]), low(triangles[k][2]), low(triangles[k][3])>>]

\* remove_one without lines 152-154: the larger shape indices are not lowered
RenumberKeepIndices(S, index) ==
    [S EXCEPT
       !.shapes = Mask(@, {k \in DOMAIN S.shapes : k # index + 1}),
       !._z_order = Mask(@, {k \in DOMAIN S.shapes : k # index + 1})]

\* lines 150-154: the shape leaves the list and larger shape indices drop by one
Renumber(S, index) ==
    LET dec(i) == IF i > index THEN i - 1 ELSE i
        keep == {k \in DOMAIN S.shapes : k # index + 1}
    IN [S EXCEPT
          !.shapes = Mask(@, keep),
          !._z_order = Mask(@, keep),
          !._index = [k \in 1..Len(@) |-> dec(@[k])],
          !._mesh_triangles_index = [k \in 1..Len(@) |-> <<dec(@[k][1]), @[k][2]>>],
          !._mesh_vertices_index = [k \in 1..Len(@) |-> <<dec(@[k][1]), @[k][2]>>]]

\* indices[0] of line 147 raises IndexError when the shape owns no mesh vertex
remove_one_raises(S, index) == RemovedMeshVertices(S, index) = {}

\* lines 146-154 on the masked arrays R, removed being the positions of the mesh
\* vertices taken out
FinishRemove(R, index, renumber, removed) ==
    IF removed = {} THEN R
    ELSE IF renumber
    THEN Renumber([R EXCEPT !._mesh_triangles =
                      LowerTriangles(@, SetMin(removed), Cardinality(removed))], index)
    ELSE [R EXCEPT !._mesh_triangles =
             LowerTriangles(@, SetMin(removed), Cardinality(removed))]

remove_one(S, index, renumber) ==
    FinishRemove(RemoveRows(S, index), index, renumber, RemovedMeshVertices(S, index))

\* a[mask] = new: the j-th masked position (in array order) takes new[j]
AssignMasked(arr, pos, new) ==
    [k \in 1..Len(arr) |->
        IF k \in pos THEN new[Cardinality({j \in pos : j <= k})] ELSE arr[k]]

TaggedRows(tags, index, type) == {k \in DOMAIN tags : tags[k] = <<index, type>>}

\* lines 193-196: the edge mesh vertices of the shape are recomputed in place
UpdateEdgeVertices(S, index) ==
    [S EXCEPT !._mesh_vertices =
        AssignMasked(@, TaggedRows(S._mesh_vertices_index, index, 1),
                     EdgeMeshVertices(S.shapes[index + 1]))]

\* lines 198-201: the face mesh vertices and the vertices are copied from the shape
UpdateFaceVertices(S, index) ==
    [S EXCEPT
       !._mesh_vertices =
           AssignMasked(@, TaggedRows(S._mesh_vertices_index, index, 0),
                        FaceMeshVertices(S.shapes[index + 1])),
       !._vertices =
           AssignMasked(@, {k \in DOMAIN S._index : S._index[k] = index},
                        S.shapes[index + 1].data)]

\* a full rebuild in place of the patch: the rows of the shape are removed and
\* appended again, as edit does
RebuildMeshes(S, index, edge, face) ==
    add_at(remove_one(S, index, FALSE), S.shapes[index + 1], index)

_update_mesh_vertices(S, index, edge, face) ==
    CASE edge /\ face -> UpdateFaceVertices(UpdateEdgeVertices(S, index), index)
      [] edge /\ ~face -> UpdateEdgeVertices(S, index)
      [] ~edge /\ face -> UpdateFaceVertices(S, index)
      [] OTHER -> S

\* edit calling remove_one with its default renumber=True
EditRenumbering(S, index, data) ==
    add_at(remove_one([S EXCEPT !.shapes[index + 1].data = data], index, TRUE),
           [S.shapes[index + 1] EXCEPT !.data = data], index)

edit(S, index, data) ==
    add_at(remove_one([S EXCEPT !.shapes[index + 1].data = data], index, FALSE),
           [S.shapes[index + 1] EXCEPT !.data = data], index)

update_edge_width(S, index, edge_width) ==
    _update_mesh_vertices([S EXCEPT !.shapes[index + 1].edge_width = edge_width],
                          index, TRUE, FALSE)

\* update_edge_color with the mask of line 241 on the shape index alone
UpdateEdgeColorAnyType(S, index, edge_color) ==
    [S EXCEPT !.shapes[index + 1].edge_color = edge_color,
              !._mesh_triangles_colors =
                  [k \in 1..Len(@) |->
                      IF S._mesh_triangles_index[k][1] = index THEN edge_color ELSE @[k]]]

update_edge_color(S, index, edge_color) ==
    [S EXCEPT !.shapes[index + 1].edge_color = edge_color,
              !._mesh_triangles_colors =
                  [k \in 1..Len(@) |->
                      IF S._mesh_triangles_index[k] = <<index, 1>> THEN edge_color ELSE @[k]]]

update_face_color(S, index, face_color) ==
    [S EXCEPT !.shapes[index + 1].face_color = face_color,
              !._mesh_triangles_colors =
                  [k \in 1..Len(@) |->
                      IF S._mesh_triangles_index[k] = <<index, 0>> THEN face_color ELSE @[k]]]

update_z_order(S, index, z_order) ==
    [S EXCEPT !.shapes[index + 1].z_order = z_order,
              !._mesh_triangles_z_order =
                  [k \in 1..Len(@) |->
                      IF S._mesh_triangles_index[k][1] = index THEN z_order ELSE @[k]]]

\* Shape.shift: every vertex of the shape moves by the same vector
ShapeShift(shape, delta) ==
    [shape EXCEPT !.data = [k \in 1..Len(@) |-> VAdd(@[k], delta)]]

shift(S, index, delta) ==
    _update_mesh_vertices([S EXCEPT !.shapes[index + 1] = ShapeShift(@, delta)],
                          index, TRUE, TRUE)

\* Shape.scale: every vertex moves away from center by the factor scale
ShapeScale(shape, scale, center) ==
    [shape EXCEPT !.data =
        [k \in 1..Len(@) |-> VAdd(center, VScale(scale, VSub(@[k], center)))]]

\* Shape.rotate by a multiple of 90 degrees about center
ShapeRotate(shape, angle, center) ==
    LET turn(p) == CASE angle = 90 -> <<-p[2], p[1]>>
                     [] angle = 180 -> <<-p[1], -p[2]>>
                     [] OTHER -> p
    IN [shape EXCEPT !.data =
           [k \in 1..Len(@) |-> VAdd(center, turn(VSub(@[k], center)))]]

\* Shape.flip: axis 0 mirrors the first coordinate about center, axis 1 the second
ShapeFlip(shape, axis, center) ==
    LET mirror(p) == IF axis = 0 THEN <<2 * center[1] - p[1], p[2]>>
                     ELSE <<p[1], 2 * center[2] - p[2]>>
    IN [shape EXCEPT !.data = [k \in 1..Len(@) |-> mirror(@[k])]]

\* Shape.transform: every vertex is multiplied by the 2x2 matrix
ShapeTransform(shape, matrix) ==
    LET apply(p) == <<matrix[1][1] * p[1] + matrix[1][2] * p[2],
                      matrix[2][1] * p[1] + matrix[2][2] * p[2]>>
    IN [shape EXCEPT !.data = [k \in 1..Len(@) |-> apply(@[k])]]

scale(S, index, factor, center) ==
    _update_mesh_vertices([S EXCEPT !.shapes[index + 1] = ShapeScale(@, factor, center)],
                          index, TRUE, TRUE)

rotate(S, index, angle, center) ==
    _update_mesh_vertices([S EXCEPT !.shapes[index + 1] = ShapeRotate(@, angle, center)],
                          index, TRUE, TRUE)

flip(S, index, axis, center) ==
    _update_mesh_vertices([S EXCEPT !.shapes[index + 1] = ShapeFlip(@, axis, center)],
                          index, TRUE, TRUE)

transform(S, index, matrix) ==
    _update_mesh_vertices([S EXCEPT !.shapes[index + 1] = ShapeTransform(@, matrix)],
                          index, TRUE, TRUE)

RECURSIVE set(_, _)
\* set(shapes): remove_all, then add each shape of the list in turn
set(S, list) ==
    IF list = <<>> THEN remove_all(S)
    ELSE add(set(S, SubSeq(list, 1, Len(list) - 1)), list[Len(list)])

\* ------------------------------------------- calls with any integer index

\* what a call leaves: the collection, and the name of the exception it raised
\* ("" when it returned)
Call(S, raised) == [data |-> S, raised |-> raised]

\* self.shapes[index] raises IndexError outside -N..N-1 ...
OutOfRange(S, index) == index \notin (-Len(S.shapes))..(Len(S.shapes) - 1)

\* ... and counts a negative index from the end of the list
Slot(S, index) == IF index < 0 THEN index + Len(S.shapes) ELSE index

\* a[mask] = values raises ValueError unless values has as many rows as the
\* mask selects, or one row
MaskAssignRaises(rows, values) == Cardinality(rows) # Len(values) /\ Len(values) # 1

\* remove_one(index): lines 130-145 mask the arrays, indices[0] of line 147
\* raises when no mesh vertex carries the index
remove_one_call(S, index, renumber) ==
    IF remove_one_raises(S, index) THEN Call(RemoveRows(S, index), "IndexError")
    ELSE Call(remove_one(S, index, renumber), "")

\* edit(index, data): line 212 writes the data of shapes[index], line 214 removes
\* the rows tagged index, line 215 adds the shape at index
edit_call(S, index, d) ==
    IF OutOfRange(S, index) THEN Call(S, "IndexError")
    ELSE IF remove_one_raises(S, index)
    THEN Call(RemoveRows([S EXCEPT !.shapes[Slot(S, index) + 1].data = d], index), "IndexError")
    ELSE Call(edit(S, index, d), "")

\* _update_mesh_vertices(index, edge, face) on the collection S whose shape in
\* slot has been changed: the masks compare the tags with index as it was given
patch_call(S, slot, index, edge, face) ==
    IF edge /\ MaskAssignRaises(TaggedRows(S._mesh_vertices_index, index, 1),
                                EdgeMeshVertices(S.shapes[slot + 1]))
    THEN Call(S, "ValueError")
    ELSE IF face /\ MaskAssignRaises(TaggedRows(S._mesh_vertices_index, index, 0),
                                     FaceMeshVertices(S.shapes[slot + 1]))
    THEN Call(IF edge /\ index >= 0 THEN UpdateEdgeVertices(S, index) ELSE S, "ValueError")
    ELSE IF face /\ MaskAssignRaises({k \in DOMAIN S._index : S._index[k] = index},
                                     S.shapes[slot + 1].data)
    THEN Call(IF edge /\ index >= 0 THEN UpdateEdgeVertices(S, index) ELSE S, "ValueError")
    ELSE Call(IF index >= 0 THEN _update_mesh_vertices(S, index, edge, face) ELSE S, "")

\* update_edge_width(index, edge_width): lines 226-227
update_edge_width_call(S, index, edge_width) ==
    IF OutOfRange(S, index) THEN Call(S, "IndexError")
    ELSE patch_call([S EXCEPT !.shapes[Slot(S, index) + 1].edge_width = edge_width],
                    Slot(S, index), index, TRUE, FALSE)

\* update_edge_color(index, edge_color): lines 240-242; the color is broadcast
\* to the rows the mask selects, none included
update_edge_color_call(S, index, edge_color) ==
    IF OutOfRange(S, index) THEN Call(S, "IndexError")
    ELSE Call([S EXCEPT !.shapes[Slot(S, index) + 1].edge_color = edge_color,
                        !._mesh_triangles_colors =
                            [k \in 1..Len(@) |->
                                IF S._mesh_triangles_index[k] = <<index, 1>>
                                THEN edge_color ELSE @[k]]], "")

\* update_face_color(index, face_color): lines 255-257
update_face_color_call(S, index, face_color) ==
    IF OutOfRange(S, index) THEN Call(S, "IndexError")
    ELSE Call([S EXCEPT !.shapes[Slot(S, index) + 1].face_color = face_color,
                        !._mesh_triangles_colors =
                            [k \in 1..Len(@) |->
                                IF S._mesh_triangles_index[k] = <<index, 0>>
                                THEN face_color ELSE @[k]]], "")

\* update_z_order(index, z_order): lines 269-271
update_z_order_call(S, index, z_order) ==
    IF OutOfRange(S, index) THEN Call(S, "IndexError")
    ELSE Call([S EXCEPT !.shapes[Slot(S, index) + 1].z_order = z_order,
                        !._mesh_triangles_z_order =
                            [k \in 1..Len(@) |->
                                IF S._mesh_triangles_index[k][1] = index
                                THEN z_order ELSE @[k]]], "")

\* shift(index, shift): lines 282-283
shift_call(S, index, delta) ==
    IF OutOfRange(S, index) THEN Call(S, "IndexError")
    ELSE patch_call([S EXCEPT !.shapes[Slot(S, index) + 1] = ShapeShift(@, delta)],
                    Slot(S, index), index, TRUE, TRUE)

\* add(shape, shape_index): lines 50-51 write the slot, lines 53-88 append the
\* rows under shape_index as it was given
add_call(S, shape, shape_index) ==
    IF OutOfRange(S, shape_index) THEN Call(S, "IndexError")
    ELSE Call(AppendShape([S EXCEPT !.shapes[Slot(S, shape_index) + 1] = shape,
                                    !._z_order[Slot(S, shape_index) + 1] = shape.z_order],
                          shape, shape_index), "")

\* --------------------------------------------------------------- ShapesData

\* The centerline+offset store of gui/layers/shapes_data.  A mesh tag is
\* <<object index, shape id, type>> with type 1 for edges and 0 for fills;
\* _mesh_vertices and _mesh_vertices_offsets are stored doubled,
\* _mesh_vertices_centers as they are.

\* remove_all_shapes / the arrays __init__ creates, for a given thickness
EmptyData(thickness) ==
    [thickness |-> thickness, id |-> <<>>, vertices |-> <<>>, index |-> <<>>,
     boxes |-> <<>>,
     _mesh_vertices |-> <<>>, _mesh_vertices_index |-> <<>>,
     _mesh_faces |-> <<>>, _mesh_faces_index |-> <<>>,
     _mesh_vertices_centers |-> <<>>, _mesh_vertices_offsets |-> <<>>]

\* the 9-point box of an array of points: corners, edge midpoints, center
_expand_box(corners) ==
    LET x0 == SetMin({corners[k][1] : k \in DOMAIN corners})
        y0 == SetMin({corners[k][2] : k \in DOMAIN corners})
        x1 == SeqMax([k \in DOMAIN corners |-> corners[k][1]])
        y1 == SeqMax([k \in DOMAIN corners |-> corners[k][2]])
    IN << <<x0, y0>>, <<(x0 + x1) \div 2, y0>>, <<x1, y0>>, <<x1, (y0 + y1) \div 2>>,
          <<x1, y1>>, <<(x0 + x1) \div 2, y1>>, <<x0, y1>>, <<x0, (y0 + y1) \div 2>>,
          <<(2 * x0 + 2 * x1) \div 4, (2 * y0 + 2 * y1) \div 4>> >>

\* _append_meshes: m is the number of mesh vertices before the call
_append_meshes(D, vertices, faces, index, centers, offsets) ==
    [D EXCEPT
       !._mesh_vertices = @ \o vertices,
       !._mesh_vertices_index = @ \o Repeat(index, Len(vertices)),
       !._mesh_vertices_centers = @ \o centers,
       !._mesh_vertices_offsets = @ \o offsets,
       !._mesh_faces = @ \o ShiftTriangles(faces, Len(D._mesh_vertices)),
       !._mesh_faces_index = @ \o Repeat(index, Len(faces))]

\* the edge branch of _compute_meshes on the triangulation mesh of the points
AppendEdge(D, mesh, thickness, index) ==
    _append_meshes(D, StrokeVertices(mesh, thickness), mesh.faces,
                   index \o <<1>>, mesh.centers, mesh.offsets)

\* the fill branch of _compute_meshes for given fill vertices and faces:
\* centers are the vertices and offsets are zero
AppendFill(D, fill_vertices, fill_faces, index) ==
    _append_meshes(D, Doubled(fill_vertices), fill_faces, index \o <<0>>,
                   fill_vertices, Repeat(<<0, 0>>, Len(fill_vertices)))

\* _compute_meshes(points, closed, fill, edge, thickness, index, fill_vertices,
\* fill_faces); a fill is always given its vertices and faces here
_compute_meshes(D, points, closed, fill, edge, thickness, index, fill_vertices, fill_faces) ==
    CASE edge /\ fill ->
            AppendFill(AppendEdge(D, path_triangulate(points, closed, FALSE), thickness, index),
                       fill_vertices, fill_faces, index)
      [] edge /\ ~fill ->
            AppendEdge(D, path_triangulate(points, closed, FALSE), thickness, index)
      [] ~edge /\ fill -> AppendFill(D, fill_vertices, fill_faces, index)
      [] OTHER -> D

\* max(self.index, default=-1) + 1
NextObject(D) == IF D.index = <<>> THEN 0 ELSE SeqMax(D.index) + 1

\* the rows of a list of point arrays, one after the other
RECURSIVE Flatten(_)
Flatten(arrays) == IF arrays = <<>> THEN <<>> ELSE Head(arrays) \o Flatten(Tail(arrays))

\* the object index of each row of Flatten(arrays), counted from m
RECURSIVE ObjectIndices(_, _)
ObjectIndices(arrays, m) ==
    IF arrays = <<>> THEN <<>>
    ELSE Repeat(m, Len(Head(arrays))) \o ObjectIndices(Tail(arrays), m + 1)

\* the id, vertices, index and boxes rows that an _add_* method appends for
\* objects of one kind; rows are the vertex arrays, raw the arrays boxed
AppendObjects(D, id, rows, raw) ==
    [D EXCEPT
       !.id = @ \o Repeat(id, Len(rows)),
       !.vertices = @ \o Flatten(rows),
       !.index = @ \o ObjectIndices(rows, NextObject(D)),
       !.boxes = @ \o [k \in 1..Len(raw) |-> _expand_box(raw[k])]]

RECURSIVE RectangleMeshes(_, _, _, _)
\* the loop of _add_rectangles from object i on: four boundary lines and two
\* fill triangles for each rectangle r[i]
RectangleMeshes(D, r, m, i) ==
    IF i >= Len(r) THEN D
    ELSE RectangleMeshes(
             _compute_meshes(D, At(r, i), TRUE, TRUE, TRUE, D.thickness, <<m + i, 1>>,
                             At(r, i), << <<0, 1, 2>>, <<0, 2, 3>> >>),
             r, m, i + 1)

\* _add_rectangles(rectangles), each rectangle two opposite corners
_add_rectangles(D, rectangles) ==
    RectangleMeshes(
        AppendObjects(D, 1, [k \in 1..Len(rectangles) |-> _expand_rectangle(rectangles[k])],
                      rectangles),
        [k \in 1..Len(rectangles) |-> _expand_rectangle(rectangles[k])], NextObject(D), 0)

RECURSIVE PathMeshes(_, _, _, _)
\* the loop of _add_paths from object i on: the open stroke of each path
PathMeshes(D, paths, m, i) ==
    IF i >= Len(paths) THEN D
    ELSE PathMeshes(
             _compute_meshes(D, At(paths, i), FALSE, FALSE, TRUE, D.thickness, <<m + i, 3>>,
                             <<>>, <<>>),
             paths, m, i + 1)

\* _add_paths(paths), each path an array of points
_add_paths(D, paths) ==
    PathMeshes(AppendObjects(D, 4, paths, paths), paths, NextObject(D), 0)

\* np.matmul(x, A)[:, :2] for one row x = (p, 1) and A the transposed 3x3 form
\* of transform: the affine map of the point p, whose coordinates count 1/k
AffineRow(affine, p, k) ==
    IF IsNaN(p) THEN NaNVec
    ELSE <<affine[1][1] * p[1] + affine[1][2] * p[2] + k * affine[1][3],
           affine[2][1] * p[1] + affine[2][2] * p[2] + k * affine[2][3]>>

\* np.matmul(x, transform[:, :2]) for one row x: the row times the 2x2 block
\* as it stands (line 222 does not transpose it)
OffsetRow(affine, p) ==
    IF IsNaN(p) THEN NaNVec
    ELSE <<p[1] * affine[1][1] + p[2] * affine[2][1],
           p[1] * affine[1][2] + p[2] * affine[2][2]>>

\* _select_meshes(index, meshes) for an int index: the rows of the object
_select_meshes(index, meshes) == {k \in DOMAIN meshes : meshes[k][1] = index}

\* _transform_shapes(transform, index) for an int index
_transform_shapes(D, affine, index) ==
    [D EXCEPT
       !._mesh_vertices =
           [k \in 1..Len(@) |->
               IF k \in _select_meshes(index, D._mesh_vertices_index)
               THEN AffineRow(affine, @[k], 2) ELSE @[k]],
       !._mesh_vertices_centers =
           [k \in 1..Len(@) |->
               IF k \in _select_meshes(index, D._mesh_vertices_index)
               THEN AffineRow(affine, @[k], 1) ELSE @[k]],
       !._mesh_vertices_offsets =
           [k \in 1..Len(@) |->
               IF k \in _select_meshes(index, D._mesh_vertices_index)
               THEN OffsetRow(affine, @[k]) ELSE @[k]],
       !.boxes[index + 1] = [j \in 1..Len(@) |-> AffineRow(affine, @[j], 1)],
       !.vertices =
           [k \in 1..Len(@) |->
               IF D.index[k] = index THEN AffineRow(affine, @[k], 1) ELSE @[k]]]

\* shift_shapes(offset, index)
shift_shapes(D, offset, index) ==
    _transform_shapes(D, << <<1, 0, offset[1]>>, <<0, 1, offset[2]>> >>, index)

\* the transform about the point offset (<<>> for None): the shapes are
\* shifted by -offset, then transformed with offset as the translation
TransformAbout(D, linear, offset, index) ==
    IF offset = <<>>
    THEN _transform_shapes(D, << linear[1] \o <<0>>, linear[2] \o <<0>> >>, index)
    ELSE _transform_shapes(shift_shapes(D, VNeg(offset), index),
                           << linear[1] \o <<offset[1]>>, linear[2] \o <<offset[2]>> >>,
                           index)

\* scale_shapes(scale, offset, index) for a scalar scale
scale_shapes(D, factor, offset, index) ==
    TransformAbout(D, << <<factor, 0>>, <<0, factor>> >>, offset, index)

\* flip_vertical_shapes(offset, index)
flip_vertical_shapes(D, offset, index) ==
    TransformAbout(D, << <<-1, 0>>, <<0, 1>> >>, offset, index)

\* flip_horizontal_shapes(offset, index)
flip_horizontal_shapes(D, offset, index) ==
    TransformAbout(D, << <<1, 0>>, <<0, -1>> >>, offset, index)

\* np.cos and np.sin of a multiple of 90 degrees
Cos(angle) == CASE angle % 360 = 0 -> 1 [] angle % 360 = 180 -> -1 [] OTHER -> 0
Sin(angle) == CASE angle % 360 = 90 -> 1 [] angle % 360 = 270 -> -1 [] OTHER -> 0

\* rotate_shapes(angle, offset, index)
rotate_shapes(D, angle, offset, index) ==
    TransformAbout(D, << <<Cos(angle), Sin(angle)>>, <<-Sin(angle), Cos(angle)>> >>,
                   offset, index)

\* the number of boundary samples of an ellipse (line 24)
_ellipse_segments == 100

\* the point center + (xr cos t, yr sin t) at the j-th of the n angles of
\* np.linspace(0, 2 pi, n), t = 2 pi j / (n - 1), as it is stored in the
\* float32 array: center and radii are kept doubled, the angle by its sample
\* number. The last sample has cos t = 1 and sin t = -2.4e-16, so the stored
\* point is the one of sample 0 unless center[1] is exactly 0
EllipsePoint(center, xr, yr, j, n) ==
    IF j = n - 1 /\ center[2] # 0 THEN <<center, xr, yr, 0>> ELSE <<center, xr, yr, j>>

\* _generate_ellipse(corners, num_segments): row 0 is the center, rows 1 to
\* num_segments the samples
_generate_ellipse(corners, num_segments) ==
    LET center == VAdd(corners[1], corners[2])
        xr == Abs(2 * corners[1][1] - center[1])
        yr == Abs(2 * corners[1][2] - center[2])
    IN [k \in 1..(num_segments + 1) |->
           IF k = 1 THEN <<center, 0, 0, 0>>
           ELSE EllipsePoint(center, xr, yr, k - 2, num_segments)]

\* the fan of _add_ellipses (lines 308-309): [0, i+1, i+2] for i in
\* range(num_segments), then fill_faces[-1, 2] = 1
EllipseFillFaces(num_segments) ==
    [k \in 1..num_segments |->
        IF k = num_segments THEN <<0, k, 1>> ELSE <<0, k, k + 1>>]

\* what _add_ellipses hands to _compute_meshes for one ellipse: the closed
\* boundary path points[1:-1], the fill vertices and the fill faces
EllipseMeshes(corners) ==
    LET points == _generate_ellipse(corners, _ellipse_segments)
    IN [corners |-> corners, called |-> TRUE, closed |-> TRUE,
        path |-> SubSeq(points, 2, Len(points) - 1),
        fill_vertices |-> points,
        fill_faces |-> EllipseFillFaces(_ellipse_segments)]

\* ------------------------------------------------------------------ queries

\* Python's None where the code stores an index or None
None == -1

\* shape_util.inside_triangles on triangles - point: the sign test, true for the
\* triangles (three doubled corners) that contain the doubled point
inside_triangle(tri, point) ==
    LET A == VSub(tri[1], point)
        B == VSub(tri[2], point)
        C == VSub(tri[3], point)
        AB == VSub(B, A)
        AC == VSub(C, A)
        BC == VSub(C, B)
        s_AB == ~IsNaN(AB) /\ -AB[1] * A[2] + AB[2] * A[1] >= 0
        s_AC == ~IsNaN(AC) /\ -AC[1] * A[2] + AC[2] * A[1] >= 0
        s_BC == ~IsNaN(BC) /\ -BC[1] * B[2] + BC[2] * B[1] >= 0
    IN (s_AB # s_AC) /\ (s_AB = s_BC)

\* self.data._mesh_vertices[self.data._mesh_triangles][k]: the corners of triangle k
Corners(S, k) ==
    LET t == S._mesh_triangles[k]
    IN <<At(S._mesh_vertices, t[1]), At(S._mesh_vertices, t[2]), At(S._mesh_vertices, t[3])>>

\* the shape indices of the triangles that contain the point
ShapesHit(S, point) ==
    {S._mesh_triangles_index[k][1] :
        k \in {j \in DOMAIN S._mesh_triangles : inside_triangle(Corners(S, j), VScale(2, point))}}

\* list.index(m), 0-based; the caller checks that m occurs
ListIndex(list, m) == SetMin({k \in DOMAIN list : list[k] = m}) - 1

\* lines 630-641 of _shape_at: the hit shapes are ranked by z_list.index(shape
\* index) and the first is returned; list.index raises ValueError for a shape
\* index that is no entry of z_list
_shape_at(S, point) ==
    LET hit == ShapesHit(S, point)
        z_list == S._z_order
    IN IF hit = {} THEN [raised |-> "", value |-> <<None, None>>]
       ELSE IF \E m \in hit : m \notin Range(z_list)
       THEN [raised |-> "ValueError", value |-> <<None, None>>]
       ELSE [raised |-> "",
             value |-> <<CHOOSE m \in hit :
                            \A n \in hit : ListIndex(z_list, m) <= ListIndex(z_list, n),
                         None>>]

\* create_box(box)[[0, 4]]: the minimum and the maximum corner of the box
BoxMinMax(box) ==
    << <<Min(box[1][1], box[2][1]), Min(box[1][2], box[2][2])>>,
       <<Max(box[1][1], box[2][1]), Max(box[1][2], box[2][2])>> >>

\* p >= q on both coordinates (np.all of the elementwise comparison)
AllGeq(p, q) == ~IsNaN(p) /\ ~IsNaN(q) /\ p[1] >= q[1] /\ p[2] >= q[2]

\* line 650: corner i of a triangle counts as inside when the box maximum is >=
\* the triangle's corner 0 and corner i is >= the box minimum
points_inside(tri, i, bmin, bmax) == AllGeq(bmax, tri[1]) /\ AllGeq(tri[i], bmin)

\* _shapes_in_box(box): np.unique of the shape indices of the triangles with a
\* corner counted as inside, as a sorted list
_shapes_in_box(S, box) ==
    LET b == BoxMinMax(box)
        bmin == VScale(2, b[1])
        bmax == VScale(2, b[2])
        inside == {k \in DOMAIN S._mesh_triangles :
                      \E i \in 1..3 : points_inside(Corners(S, k), i, bmin, bmax)}
    IN {S._mesh_triangles_index[k][1] : k \in inside}

\* --------------------------------------------------- the Shapes controller

\* the modes the setter accepts (lines 269-328)
Modes ==
    {"select", "direct", "pan/zoom", "add_rectangle", "add_ellipse", "add_line",
     "add_path", "add_polygon", "vertex_insert", "vertex_remove"}

\* the modes between which a change keeps the selection (lines 333-336)
Family == {"vertex_insert", "vertex_remove", "direct", "select"}

\* the message of the ValueError of line 330
ModeError == "Mode not recongnized"

ModeCursor(mode) ==
    CASE mode \in {"select", "direct"} -> "pointing"
      [] mode = "pan/zoom" -> "standard"
      [] OTHER -> "cross"

ModeInteractive(mode) == mode = "pan/zoom"

ModeHelp(mode) ==
    CASE mode \in {"select", "direct"} ->
            "hold <space> to pan/zoom, press <delete> to remove selected"
      [] mode = "pan/zoom" -> ""
      [] OTHER -> "hold <space> to pan/zoom"

\* the layer after __init__ (lines 110-135); an unset box or point is <<>>
InitLayer ==
    [mode |-> "pan/zoom", cursor |-> "standard", interactive |-> TRUE, help |-> "",
     status |-> "pan/zoom",
     _highlight |-> TRUE,
     selected_shapes |-> <<>>, _selected_shapes_stored |-> <<>>,
     _selected_box |-> <<>>,
     _hover_shapes |-> <<None, None>>, _hover_shapes_stored |-> <<None, None>>,
     _drag_start |-> <<>>, _fixed_vertex |-> <<>>, _fixed_index |-> 0,
     _selected_vertex |-> <<None, None>>,
     _is_moving |-> FALSE, _is_selecting |-> FALSE, _drag_box |-> <<>>,
     _ready_to_create |-> FALSE, _creating |-> FALSE,
     _mode_history |-> "pan/zoom", _selected_shapes_history |-> <<>>,
     _opacity |-> OpacityOne, _apply_all |-> TRUE, opacity_events |-> 0,
     mode_events |-> 0, raised |-> ""]

\* the box around points, kept by its minimum and maximum corner (rows 0 and
\* 4 of create_box, from which its other rows derive)
create_box(points) ==
    << <<SetMin({points[k][1] : k \in DOMAIN points}),
         SetMin({points[k][2] : k \in DOMAIN points})>>,
       <<SeqMax([k \in DOMAIN points |-> points[k][1]]),
         SeqMax([k \in DOMAIN points |-> points[k][2]])>> >>

\* the size of a handle on the screen (line 66) and the length of the stalk of
\* the rotation handle (line 69)
_vertex_size == 10
_rotion_handle_length == 20

\* the nine rows of create_box from its corners, doubled so that the midpoints
\* are integers: the corners clockwise from the minimum one, each followed by
\* the midpoint of the side to the next, then the center
BoxOf(x0, y0, x1, y1) ==
    << <<2 * x0, 2 * y0>>, <<x0 + x1, 2 * y0>>, <<2 * x1, 2 * y0>>, <<2 * x1, y0 + y1>>,
       <<2 * x1, 2 * y1>>, <<x0 + x1, 2 * y1>>, <<2 * x0, 2 * y1>>, <<2 * x0, y0 + y1>>,
       <<x0 + x1, y0 + y1>> >>

BoxRows(b) == BoxOf(b[1][1], b[1][2], b[2][1], b[2][2])

\* v / np.linalg.norm(v) for a vector along an axis; the zero vector gives nan
Unit(v) ==
    IF IsNaN(v) \/ v = <<0, 0>> THEN NaNVec ELSE <<Sign(v[1]), Sign(v[2])>>

\* lines 395-400: the box with the rotation handle as row 9, above row 1 by
\* the length of the stalk (doubled), or on row 1 when the box has no height
WithHandle(box) ==
    Append(box,
           IF box[7] # box[1]
           THEN VSub(box[2], VScale(2 * _rotion_handle_length, Unit(VSub(box[7], box[1]))))
           ELSE box[2])

\* select_box(index) for a list of shape indices: None for the empty list, else
\* the box of the vertices of the listed shapes and, as row 9, the rotation
\* handle above row 1 (lines 395-400); the rows are doubled
select_box(S, index) ==
    IF index = <<>> THEN <<>>
    ELSE WithHandle(BoxRows(create_box(Mask(S._vertices,
                        {k \in DOMAIN S._index : S._index[k] \in Range(index)}))))

\* lines 602-603: the length of a unit of the canvas in the coordinates of
\* the layer, for a view that is not zoomed
rescale == 1

\* lines 595-609 of _shape_at: the handles of the selection box (rows 0 to 7
\* and the rotation handle, row 9) that lie within _vertex_size*rescale/2 of
\* the point on both axes; the last of them is returned, the rotation handle
\* as 8, and None when there is none.  A comparison with nan is False.
HandleAt(L, point) ==
    LET inds == <<1, 2, 3, 4, 5, 6, 7, 8, 10>>
        near(row) ==
            /\ ~IsNaN(row)
            /\ Abs(row[1] - 2 * point[1]) <= _vertex_size * rescale
            /\ Abs(row[2] - 2 * point[2]) <= _vertex_size * rescale
        matches == {k \in DOMAIN inds : near(L._selected_box[inds[k]])}
    IN IF matches = {} THEN None
       ELSE (CHOOSE k \in matches : \A j \in matches : j <= k) - 1

\* lines 610-627 of _shape_at: the rows of the vertex array that belong to a
\* selected shape and lie within _vertex_size*rescale/2 of the point on both
\* axes; the last of them is returned as its shape and its position among
\* the vertices of that shape, <<None, None>> when there is none
VertexAt(L, S, point) ==
    LET near(row) ==
            /\ ~IsNaN(row)
            /\ 2 * Abs(row[1] - point[1]) <= _vertex_size * rescale
            /\ 2 * Abs(row[2] - point[2]) <= _vertex_size * rescale
        matches == {k \in DOMAIN S._index :
                       S._index[k] \in Range(L.selected_shapes) /\ near(S._vertices[k])}
        last == CHOOSE k \in matches : \A j \in matches : j <= k
    IN IF matches = {} THEN <<None, None>>
       ELSE <<S._index[last],
              last - SetMin({k \in DOMAIN S._index : S._index[k] = S._index[last]})>>

\* _shape_at(indices) of the layer: in select mode a handle of the selection
\* box (lines 593-609), in direct and the vertex modes a vertex of a selected
\* shape (lines 610-627) comes before the shapes under the point
ShapeAt(L, S, point) ==
    IF L.selected_shapes # <<>> /\ L.mode = "select" /\ HandleAt(L, point) # None
    THEN [raised |-> "", value |-> <<L.selected_shapes[1], HandleAt(L, point)>>]
    ELSE IF L.selected_shapes # <<>> /\ L.mode \in {"direct", "vertex_insert", "vertex_remove"}
            /\ VertexAt(L, S, point) # <<None, None>>
    THEN [raised |-> "", value |-> VertexAt(L, S, point)]
    ELSE _shape_at(S, point)

\* the selected_shapes setter
SetSelection(L, S, selected_shapes) ==
    [L EXCEPT !.selected_shapes = selected_shapes,
              !._selected_box = select_box(S, selected_shapes),
              !.raised = ""]

_unselect(L) ==
    IF L._highlight
    THEN [L EXCEPT !._highlight = FALSE,
                   !._selected_shapes_stored = <<>>,
                   !._hover_shapes_stored = <<None, None>>]
    ELSE L

\* _finish_drawing without the selection (line 509): a mode setter that skips it
FinishKeepSelection(L) ==
    _unselect([L EXCEPT !._ready_to_create = FALSE,
                        !._is_moving = FALSE,
                        !._drag_start = <<>>,
                        !._drag_box = <<>>,
                        !._fixed_vertex = <<>>,
                        !._selected_vertex = <<None, None>>,
                        !._hover_shapes = <<None, None>>,
                        !._creating = FALSE])

\* what _finish_drawing leaves of the layer
_finish_drawing(L) ==
    _unselect([L EXCEPT !._ready_to_create = FALSE,
                        !._is_moving = FALSE,
                        !.selected_shapes = <<>>,
                        !._selected_box = <<>>,
                        !._drag_start = <<>>,
                        !._drag_box = <<>>,
                        !._fixed_vertex = <<>>,
                        !._selected_vertex = <<None, None>>,
                        !._hover_shapes = <<None, None>>,
                        !._creating = FALSE])

\* the vertices of shape index but the last (vertices[:-1])
AllButLast(S, index) ==
    SubSeq(Mask(S._vertices, {k \in DOMAIN S._index : S._index[k] = index}), 1,
           Cardinality({k \in DOMAIN S._index : S._index[k] = index}) - 1)

\* lines 515-520 without the edit of line 520: a path that is kept keeps its
\* last vertex
FinishDataKeepLast(L, S) ==
    IF L._creating /\ L.mode \in {"add_path", "add_polygon"}
          /\ Cardinality({k \in DOMAIN S._index : S._index[k] = L._selected_vertex[1]}) <= 2
    THEN remove_one(S, L._selected_vertex[1], TRUE)
    ELSE S

\* what _finish_drawing leaves of the collection (lines 515-525): a path or a
\* polygon being created is removed when it has at most 2 vertices, and a path
\* with more loses its last vertex
FinishData(L, S) ==
    IF L._creating /\ L.mode \in {"add_path", "add_polygon"}
    THEN IF Cardinality({k \in DOMAIN S._index : S._index[k] = L._selected_vertex[1]}) <= 2
         THEN remove_one(S, L._selected_vertex[1], TRUE)
         ELSE IF L.mode = "add_path"
              THEN edit(S, L._selected_vertex[1], AllButLast(S, L._selected_vertex[1]))
              ELSE S
    ELSE S

\* lines 329-330 with the event of line 332 emitted before the raise
InvalidModeAfterEvent(L, mode) ==
    [L EXCEPT !.raised = ModeError, !.mode_events = @ + 1]

\* lines 329-330: the setter raises and has assigned nothing
InvalidMode(L, mode) == [L EXCEPT !.raised = ModeError]

\* lines 269-328 and 332: the fields of the new mode, and the mode event
EnterMode(L, mode) ==
    [L EXCEPT !.cursor = ModeCursor(mode),
              !.interactive = ModeInteractive(mode),
              !.help = ModeHelp(mode),
              !.status = mode,
              !.mode = mode,
              !.mode_events = @ + 1,
              !.raised = ""]

\* the mode setter: the layer it leaves
SetModeLayer(L, mode) ==
    IF mode = L.mode THEN [L EXCEPT !.raised = ""]
    ELSE IF mode \notin Modes THEN InvalidMode(L, mode)
    ELSE IF mode \in Family /\ L.mode \in Family THEN EnterMode(L, mode)
    ELSE _finish_drawing(EnterMode(L, mode))

\* the mode setter: the collection it leaves
SetModeData(L, S, mode) ==
    IF mode = L.mode \/ mode \notin Modes \/ (mode \in Family /\ L.mode \in Family)
    THEN S
    ELSE FinishData(EnterMode(L, mode), S)

\* a[i] of numpy for an int i: a negative i counts from the end
PyRow(a, i) == IF i < 0 THEN a[Len(a) + i + 1] ELSE a[i + 1]

\* _set_view_slice: lines 371-372 index the triangle and color arrays with the
\* array _mesh_triangles_z_order; picks are the rows taken, faces and colors
\* what the renderer is given
_set_view_slice(S) ==
    IF \E k \in DOMAIN S._mesh_triangles_z_order :
          S._mesh_triangles_z_order[k] \notin (-Len(S._mesh_triangles))..(Len(S._mesh_triangles) - 1)
    THEN [raised |-> "IndexError", picks |-> <<>>, faces |-> <<>>, colors |-> <<>>]
    ELSE [raised |-> "",
          picks |-> [k \in DOMAIN S._mesh_triangles_z_order |->
                        S._mesh_triangles_z_order[k] % Len(S._mesh_triangles)],
          faces |-> [k \in DOMAIN S._mesh_triangles_z_order |->
                        PyRow(S._mesh_triangles, S._mesh_triangles_z_order[k])],
          colors |-> [k \in DOMAIN S._mesh_triangles_z_order |->
                        PyRow(S._mesh_triangles_colors, S._mesh_triangles_z_order[k])]]

\* ------------------------------------------- opacity and z order commands

\* the message of the ValueError of lines 222-223
OpacityError == "opacity must be between 0.0 and 1.0"

\* ShapeList.update_opacity(index, opacity): the shape takes the opacity
update_opacity(S, index, opacity) == [S EXCEPT !.shapes[index + 1].opacity = opacity]

\* range(len(self.data.shapes))
AllShapes(S) == [k \in 1..Len(S.shapes) |-> k - 1]

\* lines 226-229: the shapes a style setter applies to
ApplyIndex(L, S) == IF L._apply_all THEN AllShapes(S) ELSE L.selected_shapes

RECURSIVE UpdateOpacities(_, _, _)
\* lines 230-231: update_opacity for each listed shape in turn
UpdateOpacities(S, index, opacity) ==
    IF index = <<>> THEN S
    ELSE UpdateOpacities(update_opacity(S, Head(index), opacity), Tail(index), opacity)

\* lines 222-225 with the assignment of line 225 made before the raise
OpacityInvalidAfterStore(L, opacity) ==
    [L EXCEPT !._opacity = opacity, !.raised = OpacityError]

\* lines 222-223: the setter raises and has assigned nothing
OpacityInvalid(L, opacity) == [L EXCEPT !.raised = OpacityError]

\* the opacity setter: the layer it leaves
SetOpacityLayer(L, opacity) ==
    IF ~(0 <= opacity /\ opacity <= OpacityOne) THEN OpacityInvalid(L, opacity)
    ELSE [L EXCEPT !._opacity = opacity, !.opacity_events = @ + 1, !.raised = ""]

\* the opacity setter: the collection it leaves
SetOpacityData(L, S, opacity) ==
    IF ~(0 <= opacity /\ opacity <= OpacityOne) THEN S
    ELSE UpdateOpacities(S, ApplyIndex(L, S), opacity)

RECURSIVE UpdateZOrders(_, _, _)
\* lines 702-703: the z order update for each selected shape in turn
UpdateZOrders(S, index, z_order) ==
    IF index = <<>> THEN S
    ELSE UpdateZOrders(update_z_order(S, Head(index), z_order), Tail(index), z_order)

\* move_to_front: the collection it leaves; the collection's array of z values
\* is _z_order and its update is update_z_order
move_to_front(L, S) ==
    IF Len(L.selected_shapes) = 0 THEN S
    ELSE UpdateZOrders(S, L.selected_shapes, SeqMax(S._z_order) + 1)

\* ------------------------------------------- the mouse and key handlers
\*
\* A handler leaves a layer and a collection.  The drawing of the highlight
\* (_set_highlight, refresh) changes neither and is left out.  The handlers
\* are modelled without the Shift modifier; the guards of the actions name
\* the cases that are not modelled.

Ctx(L, S) == [layer |-> L, data |-> S]

\* get_message(coord, value): the status text, which names the point and the
\* shape and vertex under it
get_message(coord, value) == ToString(<<coord, value>>)

\* _shape_at decides by the meshes alone when nothing is selected or the mode
\* has no handles to grab (lines 593-627 are skipped)
ShapeAtByMesh(L) == L.selected_shapes = <<>> \/ L.mode \notin Family

_select(L) ==
    IF L.selected_shapes = L._selected_shapes_stored /\ L._hover_shapes = L._hover_shapes_stored
    THEN L
    ELSE [L EXCEPT !._highlight = TRUE,
                   !._selected_shapes_stored = L.selected_shapes,
                   !._hover_shapes_stored = L._hover_shapes]

\* the vertices of shape index
VerticesOf(S, index) == Mask(S._vertices, {k \in DOMAIN S._index : S._index[k] = index})

\* _finish_drawing: the layer and the collection it leaves
FinishDrawing(L, S) == Ctx(_finish_drawing(L), FinishData(L, S))

\* the mode setter: the layer and the collection it leaves
SetModeCtx(L, S, mode) == Ctx(SetModeLayer(L, mode), SetModeData(L, S, mode))

\* lines 841-846: the rubber band from the drag start to the mouse
RubberBand(L, coord) ==
    [L EXCEPT !._is_selecting = TRUE,
              !._drag_start = IF L._drag_start = <<>> THEN coord ELSE L._drag_start,
              !._drag_box = <<IF L._drag_start = <<>> THEN coord ELSE L._drag_start, coord>>]

\* lines 847-862: the grabbed vertex of the shape follows the mouse
MoveVertex(L, S, coord) ==
    IF S.shapes[L._selected_vertex[1] + 1].shape_type = "ellipse"
    THEN Ctx([L EXCEPT !._is_moving = TRUE], S)
    ELSE Ctx([L EXCEPT !._is_moving = TRUE,
                       !._selected_box =
                           select_box(edit(S, L._selected_vertex[1],
                                           [VerticesOf(S, L._selected_vertex[1])
                                               EXCEPT ![L._selected_vertex[2] + 1] = coord]),
                                      L.selected_shapes)],
             edit(S, L._selected_vertex[1],
                  [VerticesOf(S, L._selected_vertex[1])
                      EXCEPT ![L._selected_vertex[2] + 1] = coord]))

\* half of a doubled vector
Half(v) == IF IsNaN(v) THEN NaNVec ELSE <<v[1] \div 2, v[2] \div 2>>

RECURSIVE ShiftEach(_, _, _)
\* lines 752-753: data.shift for each selected shape in turn
ShiftEach(S, index, delta) ==
    IF index = <<>> THEN S
    ELSE ShiftEach(shift(S, Head(index), delta), Tail(index), delta)

\* lines 747-749: the offset of the mouse from the last row of the selection
\* box, kept at the first move of the drag.  It is doubled as the rows of the
\* box are; an offset that is nan is computed again at every move, with the
\* same result.
DragStart(L, coord) ==
    IF L._drag_start = <<>>
    THEN VSub(VScale(2, coord), L._selected_box[Len(L._selected_box)])
    ELSE L._drag_start

\* line 751 without the offset kept at the first move: the last row of the box
\* jumps to the mouse
DragShiftNoStart(L, coord) ==
    VSub(VScale(2, coord), L._selected_box[Len(L._selected_box)])

\* line 751: shift = coord - center - self._drag_start, doubled
DragShift(L, coord) ==
    VSub(VSub(VScale(2, coord), L._selected_box[Len(L._selected_box)]), DragStart(L, coord))

\* lines 745-755: no handle is grabbed, the selected shapes and the selection
\* box follow the mouse
ShiftSelected(L, S, coord) ==
    Ctx([L EXCEPT !._is_moving = TRUE,
                  !._drag_start = DragStart(L, coord),
                  !._selected_box = [r \in 1..Len(@) |-> VAdd(@[r], DragShift(L, coord))]],
        ShiftEach(S, L.selected_shapes, Half(DragShift(L, coord))))

\* lines 759-761: the anchor of a resize is the handle opposite the grabbed
\* one, chosen when no anchor is kept
FixedIndex(L) ==
    IF L._fixed_vertex = <<>> THEN (L._selected_vertex[2] + 4) % 8 ELSE L._fixed_index

FixedVertex(L) ==
    IF L._fixed_vertex = <<>> THEN L._selected_box[FixedIndex(L) + 1] ELSE L._fixed_vertex

\* line 763: size = box[np.mod(self._fixed_index+4,8)] - box[self._fixed_index]
ResizeSize(L) ==
    VSub(L._selected_box[((FixedIndex(L) + 4) % 8) + 1], L._selected_box[FixedIndex(L) + 1])

\* lines 764-765: the unit vector from the center of the box to its rotation
\* handle; nan when the two coincide
ResizeOffset(L) == Unit(VSub(L._selected_box[10], L._selected_box[9]))

\* a quotient n/d kept as the pair of n and d with d positive
Frac(n, d) == IF d < 0 THEN <<-n, -d>> ELSE <<n, d>>

\* np.dot(new-fixed, axis)/np.dot(size, axis), and 1 in its place when the
\* side it gives is shorter than the threshold _vertex_size*rescale/8
\* (lines 794-798; the lengths are doubled)
ResizeRatio(L, coord, axis) ==
    IF 4 * Abs(Dot(VSub(VScale(2, coord), FixedVertex(L)), axis)) < _vertex_size * rescale
    THEN <<1, 1>>
    ELSE Frac(Dot(VSub(VScale(2, coord), FixedVertex(L)), axis), Dot(ResizeSize(L), axis))

\* lines 768-792: the factors on the two axes of the box, for a box that
\* stands upright (offset = [0, -1], offset_perp = [-1, 0]): both for a corner
\* anchor, the second alone for the anchor on the top or bottom side, the
\* first alone for the anchor on the left or right side
ResizeScale(L, coord) ==
    CASE FixedIndex(L) % 2 = 0 ->
            <<ResizeRatio(L, coord, <<-1, 0>>), ResizeRatio(L, coord, <<0, -1>>)>>
      [] FixedIndex(L) % 4 = 1 -> <<<<1, 1>>, ResizeRatio(L, coord, <<0, -1>>)>>
      [] OTHER -> <<ResizeRatio(L, coord, <<-1, 0>>), <<1, 1>>>>

\* center + (p - center)*scale for doubled p and center
ScalePoint(p, factors, center) ==
    IF IsNaN(p) \/ IsNaN(center) THEN NaNVec
    ELSE <<center[1] + ((p[1] - center[1]) * factors[1][1]) \div factors[1][2],
           center[2] + ((p[2] - center[2]) * factors[2][1]) \div factors[2][2]>>

\* the quotients of ScalePoint are whole numbers
ScaleExact(p, factors, center) ==
    /\ ((p[1] - center[1]) * factors[1][1]) % factors[1][2] = 0
    /\ ((p[2] - center[2]) * factors[2][1]) % factors[2][2] = 0

\* Shape.scale for a list of two factors: each vertex moves away from center
\* by its factor on each axis
ShapeScaleAxes(shape, factors, center) ==
    [shape EXCEPT !.data =
        [k \in 1..Len(@) |-> Half(ScalePoint(VScale(2, @[k]), factors, center))]]

\* scale(index, scale, center) for a list of two factors
scale_axes(S, index, factors, center) ==
    _update_mesh_vertices([S EXCEPT !.shapes[index + 1] = ShapeScaleAxes(@, factors, center)],
                          index, TRUE, TRUE)

RECURSIVE ScaleEach(_, _, _, _)
\* lines 803-804: data.scale for each selected shape in turn
ScaleEach(S, index, factors, center) ==
    IF index = <<>> THEN S
    ELSE ScaleEach(scale_axes(S, Head(index), factors, center), Tail(index), factors, center)

\* _scale_box(scale, center) for a list of two factors (lines 561-567): the
\* rows move as the vertices do, then the rotation handle is put back at
\* _rotion_handle_length from row 1, on the side it went to
_scale_box(box, factors, center) ==
    LET rows == [r \in 1..Len(box) |-> ScalePoint(box[r], factors, center)]
        side == <<(box[10][1] - box[2][1]) * factors[1][1], (box[10][2] - box[2][2]) * factors[2][1]>>
    IN IF side = <<0, 0>> THEN rows
       ELSE [rows EXCEPT ![10] = VAdd(rows[2], VScale(2 * _rotion_handle_length, Unit(side)))]

\* a shape whose vertices are all nan
ShapeNaN(shape) == [shape EXCEPT !.data = [k \in 1..Len(@) |-> NaNVec]]

RECURSIVE TransformEachNaN(_, _)
\* lines 811-814 with a transform of nan entries: shift, transform and shift
\* leave nan in every vertex of each selected shape
TransformEachNaN(S, index) ==
    IF index = <<>> THEN S
    ELSE TransformEachNaN(
             _update_mesh_vertices([S EXCEPT !.shapes[Head(index) + 1] = ShapeNaN(@)],
                                   Head(index), TRUE, TRUE),
             Tail(index))

\* lines 764-765 divide 0 by 0 when the rotation handle lies on the center of
\* the box (a box without height): offset is nan, and so are the factors, the
\* angle of line 801 and the transform of lines 807-810
ResizeNaN(L) == IsNaN(ResizeOffset(L)) \/ IsNaN(FixedVertex(L))

\* line 802: angle == 0, the box stands upright
ResizeUpright(L) == ResizeOffset(L) = <<0, -1>>

\* lines 756-816: a handle of the box is grabbed, the selected shapes and the
\* box are scaled about the opposite handle.  With nan for the transform
\* _transform_box leaves nan in every row of the box (lines 578-582).
ResizeSelected(L, S, coord) ==
    IF ResizeNaN(L)
    THEN Ctx([L EXCEPT !._is_moving = TRUE,
                       !._fixed_index = FixedIndex(L),
                       !._fixed_vertex = FixedVertex(L),
                       !._selected_box = [r \in 1..Len(@) |-> NaNVec]],
             TransformEachNaN(S, L.selected_shapes))
    ELSE Ctx([L EXCEPT !._is_moving = TRUE,
                       !._fixed_index = FixedIndex(L),
                       !._fixed_vertex = FixedVertex(L),
                       !._selected_box = _scale_box(@, ResizeScale(L, coord), FixedVertex(L))],
             ScaleEach(S, L.selected_shapes, ResizeScale(L, coord), FixedVertex(L)))

\* the resize is modelled for a box with nan and for a box that stands
\* upright, has a width and a height where it is divided by them, and whose
\* scaled rows and vertices are whole numbers
ResizeModelled(L, S, coord) ==
    \/ ResizeNaN(L)
    \/ /\ ResizeUpright(L)
       /\ FixedIndex(L) % 4 # 1 => ResizeSize(L)[1] # 0
       /\ FixedIndex(L) % 4 # 3 => ResizeSize(L)[2] # 0
       /\ \A r \in 1..9 : ScaleExact(L._selected_box[r], ResizeScale(L, coord), FixedVertex(L))
       /\ \A k \in DOMAIN S._index :
              S._index[k] \in Range(L.selected_shapes) =>
                 /\ ScaleExact(VScale(2, S._vertices[k]), ResizeScale(L, coord), FixedVertex(L))
                 /\ \A i \in 1..2 :
                        ScalePoint(VScale(2, S._vertices[k]), ResizeScale(L, coord),
                                   FixedVertex(L))[i] % 2 = 0

\* _move is modelled in SpecUI but for the shift, resize and rotation of
\* selected shapes (lines 743-840)
MoveModelled(L) ==
    L.mode \in {"select", "add_rectangle", "add_ellipse", "add_line"} => L.selected_shapes = <<>>

\* _move(coord)
_move(L, S, coord) ==
    CASE L.mode \in {"select", "add_rectangle", "add_ellipse", "add_line"} ->
            IF Len(L.selected_shapes) > 0
            THEN IF L._selected_vertex[2] = None THEN ShiftSelected(L, S, coord)
                 ELSE IF L._selected_vertex[2] < 8 THEN ResizeSelected(L, S, coord)
                 ELSE Ctx([L EXCEPT !._is_moving = TRUE], S)
            ELSE Ctx(RubberBand(L, coord), S)
      [] L.mode \in {"direct", "add_path", "add_polygon"} ->
            IF Len(L.selected_shapes) > 0
            THEN IF L._selected_vertex[2] # None THEN MoveVertex(L, S, coord) ELSE Ctx(L, S)
            ELSE Ctx(RubberBand(L, coord), S)
      [] OTHER ->
            IF Len(L.selected_shapes) > 0 THEN Ctx(L, S) ELSE Ctx(RubberBand(L, coord), S)

\* lines 896-901: with Shift a selected shape leaves the list
\* (list.remove) and another one is appended to it
Toggled(selected_shapes, index) ==
    IF index \in Range(selected_shapes)
    THEN Mask(selected_shapes,
              DOMAIN selected_shapes
                 \ {CHOOSE k \in DOMAIN selected_shapes :
                       /\ selected_shapes[k] = index
                       /\ \A j \in 1..(k - 1) : selected_shapes[j] # index})
    ELSE Append(selected_shapes, index)

\* lines 891-907: a press in select or direct mode, on the shape found at the
\* point
PressSelect(L, S, coord, shape, shifted) ==
    [_select(
        IF shape[2] # None THEN [L EXCEPT !._selected_vertex = shape]
        ELSE IF shifted /\ shape[1] # None
        THEN SetSelection([L EXCEPT !._selected_vertex = shape], S,
                          Toggled(L.selected_shapes, shape[1]))
        ELSE IF shape[1] # None
        THEN IF shape[1] \in Range(L.selected_shapes)
             THEN [L EXCEPT !._selected_vertex = shape]
             ELSE SetSelection([L EXCEPT !._selected_vertex = shape], S, <<shape[1]>>)
        ELSE SetSelection([L EXCEPT !._selected_vertex = shape], S, <<>>))
     EXCEPT !.status = get_message(coord, shape)]

\* the largest z index in use, without the 1 that is added to it
NewZIndexInUse(S) == IF S._z_order = <<>> THEN 0 ELSE SeqMax(S._z_order)

\* max(self.data._z_index, default=-1) + 1
NewZIndex(S) == IF S._z_order = <<>> THEN 0 ELSE SeqMax(S._z_order) + 1

\* lines 972-987: the first press in add_path or add_polygon mode starts the
\* path [coord, coord], selects it and grabs its vertex 1
StartPath(L, S, coord) ==
    Ctx([_select([SetSelection(L, add(S, Shape("path", <<coord, coord>>, 1, "black", "white",
                                                NewZIndex(S))),
                               <<Len(S.shapes)>>)
                     EXCEPT !._selected_vertex = <<Len(S.shapes), 1>>,
                            !._hover_shapes = <<Len(S.shapes), 1>>,
                            !._creating = TRUE])
            EXCEPT !.status = get_message(coord, <<Len(S.shapes), 1>>)],
        add(S, Shape("path", <<coord, coord>>, 1, "black", "white", NewZIndex(S))))

\* line 991: a later press in add_polygon mode makes the shape a polygon
PolygonIn(L, S) ==
    IF L.mode = "add_polygon"
    THEN [S EXCEPT !.shapes[L._selected_vertex[1] + 1].shape_type = "polygon"]
    ELSE S

\* lines 988-999: a later press in add_path mode appends the point as a new
\* vertex and grabs it; with no hover vertex (the path was removed while it
\* was drawn) line 997 adds 1 to None and raises
ExtendPath(L, S, coord) ==
    IF L._hover_shapes[2] = None
    THEN Ctx([L EXCEPT !._selected_vertex[2] = @ + 1, !.raised = "TypeError"], S)
    ELSE
    Ctx([L EXCEPT !._selected_vertex[2] = @ + 1,
                  !._hover_shapes[2] = @ + 1,
                  !._selected_box =
                      select_box(edit(PolygonIn(L, S), L._selected_vertex[1],
                                      Append(VerticesOf(S, L._selected_vertex[1]), coord)),
                                 L.selected_shapes),
                  !.status = get_message(coord, <<L._hover_shapes[1], L._hover_shapes[2] + 1>>)],
        edit(PolygonIn(L, S), L._selected_vertex[1],
             Append(VerticesOf(S, L._selected_vertex[1]), coord)))

\* np.insert(vertices, ind, [coord], axis=0)
Insert(vertices, ind, coord) ==
    SubSeq(vertices, 1, ind) \o <<coord>> \o SubSeq(vertices, ind + 1, Len(vertices))

\* np.delete(vertices, vertex, axis=0)
Delete(vertices, vertex) ==
    SubSeq(vertices, 1, vertex) \o SubSeq(vertices, vertex + 2, Len(vertices))

\* lines 1012-1022: the segments of one shape, those of a path from each
\* vertex to the next, those of any other kind closed by the segment from the
\* last vertex to the first
LinesOf(S, index) ==
    LET vertices == VerticesOf(S, index)
        n == Len(vertices)
    IN [i \in 1..(IF S.shapes[index + 1].shape_type # "path" THEN n ELSE n - 1) |->
           [shape |-> index, line |-> i - 1, a |-> vertices[i], b |-> vertices[(i % n) + 1]]]

RECURSIVE AllLines(_, _)
\* lines 1006-1024: the segments of the selected shapes that are no ellipses,
\* in the order of the selection
AllLines(S, selected_shapes) ==
    IF selected_shapes = <<>> THEN <<>>
    ELSE (IF S.shapes[Head(selected_shapes) + 1].shape_type = "ellipse" THEN <<>>
          ELSE LinesOf(S, Head(selected_shapes)))
         \o AllLines(S, Tail(selected_shapes))

\* the projection of the point on the segment, against the two ends: loc < 0,
\* loc > 1 or between; a segment without length has loc 0.5
LineLoc(point, seg) ==
    LET d == VSub(seg.b, seg.a)
        t == Dot(VSub(point, seg.a), d)
    IN IF Dot(d, d) = 0 THEN "inside" ELSE IF t < 0 THEN "before"
       ELSE IF t > Dot(d, d) THEN "after" ELSE "inside"

\* the squared distance from the point to the segment, as a fraction
LineDist(point, seg) ==
    LET d == VSub(seg.b, seg.a)
        w == VSub(point, seg.a)
    IN CASE LineLoc(point, seg) = "before" \/ Dot(d, d) = 0 -> <<Dot(w, w), 1>>
         [] LineLoc(point, seg) = "after" ->
               <<Dot(VSub(point, seg.b), VSub(point, seg.b)), 1>>
         [] OTHER -> <<Cross(d, w) * Cross(d, w), Dot(d, d)>>

\* point_to_lines(point, lines): the first of the segments nearest to the
\* point (np.argmin), 0-based
point_to_lines(point, lines) ==
    LET closer(j, k) == LineDist(point, lines[j])[1] * LineDist(point, lines[k])[2]
                          < LineDist(point, lines[k])[1] * LineDist(point, lines[j])[2]
    IN (CHOOSE k \in DOMAIN lines :
           /\ \A j \in DOMAIN lines : ~closer(j, k)
           /\ \A j \in 1..(k - 1) : closer(k, j) \/ closer(j, k)) - 1

\* lines 1037-1043: where the vertex goes among the vertices of the shape
InsertAt(S, seg, n, point) ==
    IF S.shapes[seg.shape + 1].shape_type \in {"path", "line"}
    THEN IF seg.line + 1 = 1 /\ LineLoc(point, seg) = "before" THEN 0
         ELSE IF seg.line + 1 = n - 1 /\ LineLoc(point, seg) = "after" THEN seg.line + 2
         ELSE seg.line + 1
    ELSE seg.line + 1

\* the kind of the shape is left as it is
KeepKind(S, index) == S

\* lines 1030-1034: a line that gets a vertex becomes a path
PathIn(S, index) ==
    IF S.shapes[index + 1].shape_type = "line"
    THEN [S EXCEPT !.shapes[index + 1].shape_type = "path"]
    ELSE S

\* the hover shape and the status at the end of a press in a vertex mode
\* (lines 1048-1051, 1076-1079)
HoverAfter(L, S, coord) ==
    IF ShapeAt(L, S, coord).raised # ""
    THEN Ctx([L EXCEPT !.raised = ShapeAt(L, S, coord).raised], S)
    ELSE Ctx([L EXCEPT !._hover_shapes = ShapeAt(L, S, coord).value,
                       !.status = get_message(coord, ShapeAt(L, S, coord).value)], S)

\* lines 1001-1051: a press in vertex_insert mode puts a vertex at the point
\* on the nearest segment of the selected shapes that are no ellipses
InsertVertex(L, S, coord) ==
    IF L.selected_shapes = <<>> \/ AllLines(S, L.selected_shapes) = <<>> THEN Ctx(L, S)
    ELSE LET lines == AllLines(S, L.selected_shapes)
             seg == lines[point_to_lines(coord, lines) + 1]
             vertices == VerticesOf(S, seg.shape)
             edited == edit(PathIn(S, seg.shape), seg.shape,
                            Insert(vertices, InsertAt(S, seg, Len(vertices), coord), coord))
         IN HoverAfter([L EXCEPT !._selected_box = select_box(edited, L.selected_shapes)],
                       edited, coord)

\* lines 1056-1075: the vertex found at the point leaves its shape; an
\* ellipse is left alone, and for a shape of 2 vertices or fewer line 1066
\* calls self.remove_shapes, which the layer does not have
RemoveVertexFound(L, S, shape) ==
    IF S.shapes[shape[1] + 1].shape_type = "ellipse" THEN Ctx(L, S)
    ELSE IF Len(VerticesOf(S, shape[1])) <= 2
    THEN Ctx([L EXCEPT !.raised = "AttributeError"], S)
    ELSE LET typed == IF S.shapes[shape[1] + 1].shape_type = "polygon"
                         /\ Len(VerticesOf(S, shape[1])) = 3
                      THEN [S EXCEPT !.shapes[shape[1] + 1].shape_type = "path"]
                      ELSE S
             edited == edit(typed, shape[1], Delete(VerticesOf(S, shape[1]), shape[2]))
         IN Ctx([L EXCEPT !._selected_box = select_box(edited, L.selected_shapes)], edited)

\* lines 1052-1079: a press in vertex_remove mode
RemoveVertex(L, S, coord) ==
    IF ShapeAt(L, S, coord).raised # ""
    THEN Ctx([L EXCEPT !.raised = ShapeAt(L, S, coord).raised], S)
    ELSE IF ShapeAt(L, S, coord).value[2] = None THEN Ctx(L, S)
    ELSE LET found == RemoveVertexFound(L, S, ShapeAt(L, S, coord).value)
         IN IF found.layer.raised # ""
               \/ S.shapes[ShapeAt(L, S, coord).value[1] + 1].shape_type = "ellipse"
            THEN found
            ELSE HoverAfter(found.layer, found.data, coord)

\* lines 933-935: the view for which the creation press is modelled is zoomed
\* out to rescale = 4, where size = _vertex_size*rescale/4 is a whole number
CreateRescale == 4
CreateSize == (_vertex_size * CreateRescale) \div 4

\* lines 937-960: the kind and the vertices of the shape a press creates: the
\* rectangle and the ellipse with the 4 corners of the two rows handed over
CreateType(mode) ==
    CASE mode = "add_rectangle" -> "rectangle"
      [] mode = "add_ellipse" -> "ellipse"
      [] OTHER -> "line"

CreateData(mode, coord) ==
    CASE mode = "add_rectangle" ->
            _expand_rectangle(<<coord, VAdd(coord, <<CreateSize, CreateSize>>)>>)
      [] mode = "add_ellipse" ->
            _expand_rectangle(<<VAdd(coord, <<CreateSize \div 2, CreateSize \div 2>>),
                                <<CreateSize, CreateSize>>>>)
      [] OTHER -> <<coord, VAdd(coord, <<CreateSize, CreateSize>>)>>

\* lines 928-970: a press in add_rectangle, add_ellipse or add_line mode adds
\* the shape above all others, selects it alone and grabs its handle 4
CreateShape(L, S, coord) ==
    LET added == add(S, Shape(CreateType(L.mode), CreateData(L.mode, coord), 1, "black",
                              "white", NewZIndex(S)))
        index == Len(added.shapes) - 1
    IN Ctx(_select([SetSelection(L, added, <<index>>)
                       EXCEPT !._ready_to_create = FALSE,
                              !._selected_vertex = <<index, 4>>,
                              !._hover_shapes = <<index, 4>>,
                              !._creating = TRUE]),
           added)

\* on_mouse_press is modelled in these modes and states: not the creation of
\* rectangles, ellipses and lines, not the polygon of a second press, not the
\* vertex modes
PressModelled(L) ==
    \/ L.mode = "pan/zoom"
    \/ L.mode \in {"select", "direct"} /\ (ShapeAtByMesh(L) \/ L._is_moving \/ L._is_selecting)
    \/ L.mode = "add_path"
    \/ L.mode = "add_polygon" /\ ~L._creating

\* on_mouse_press(event) at the point coord
on_mouse_press(L, S, coord, shifted) ==
    CASE L.mode \in {"select", "direct"} ->
            IF L._is_moving \/ L._is_selecting THEN Ctx([L EXCEPT !.raised = ""], S)
            ELSE IF ShapeAt(L, S, coord).raised # ""
            THEN Ctx([L EXCEPT !.raised = ShapeAt(L, S, coord).raised], S)
            ELSE Ctx([PressSelect(L, S, coord, ShapeAt(L, S, coord).value, shifted) EXCEPT !.raised = ""], S)
      [] L.mode \in {"add_path", "add_polygon"} ->
            IF ~L._creating THEN StartPath([L EXCEPT !.raised = ""], S, coord)
            ELSE ExtendPath([L EXCEPT !.raised = ""], S, coord)
      [] L.mode \in {"add_rectangle", "add_ellipse", "add_line"} ->
            CreateShape([L EXCEPT !.raised = ""], S, coord)
      [] L.mode = "vertex_insert" -> InsertVertex([L EXCEPT !.raised = ""], S, coord)
      [] L.mode = "vertex_remove" -> RemoveVertex([L EXCEPT !.raised = ""], S, coord)
      [] OTHER -> Ctx([L EXCEPT !.raised = ""], S)

\* lines 1105-1106, 1118-1119, 1139-1140: the shape under the mouse becomes
\* the hover shape
Hover(L, S, coord) ==
    IF ShapeAt(L, S, coord).raised # ""
    THEN Ctx([L EXCEPT !.raised = ShapeAt(L, S, coord).raised], S)
    ELSE Ctx([_select([L EXCEPT !._hover_shapes = ShapeAt(L, S, coord).value])
                 EXCEPT !.status = get_message(coord, ShapeAt(L, S, coord).value)], S)

\* lines 1094, 1129, 1137: the shape under the mouse is only named
\* in the status
Look(L, S, coord) ==
    IF ShapeAt(L, S, coord).raised # ""
    THEN Ctx([L EXCEPT !.raised = ShapeAt(L, S, coord).raised], S)
    ELSE Ctx([L EXCEPT !.status = get_message(coord, ShapeAt(L, S, coord).value)], S)

\* the status of line 1145 after _move
Dragged(C, coord) ==
    Ctx([C.layer EXCEPT !.status = get_message(coord, C.layer._hover_shapes)], C.data)

\* on_mouse_move is modelled where _move and _shape_at are
MoveHandled(L, is_dragging) ==
    /\ L.mode \in {"select", "direct"} /\ is_dragging => MoveModelled(L)
    /\ L.mode \in {"select", "direct"} /\ ~is_dragging /\ ~L._is_moving /\ ~L._is_selecting
          => ShapeAtByMesh(L)
    /\ L.mode \in {"vertex_insert", "vertex_remove"} => ShapeAtByMesh(L)

\* on_mouse_move(event) at the point coord
on_mouse_move(L, S, coord, is_dragging) ==
    CASE L.mode = "pan/zoom" -> Look([L EXCEPT !.raised = ""], S, coord)
      [] L.mode \in {"select", "direct"} ->
            IF is_dragging THEN Dragged(_move([L EXCEPT !.raised = ""], S, coord), coord)
            ELSE IF L._is_moving \/ L._is_selecting
            THEN Dragged(Ctx([L EXCEPT !.raised = ""], S), coord)
            ELSE Hover([L EXCEPT !.raised = ""], S, coord)
      [] L.mode \in {"add_rectangle", "add_ellipse", "add_line"} ->
            IF L._creating /\ is_dragging
            THEN Dragged(_move([L EXCEPT !.raised = ""], S, coord), coord)
            ELSE Look([L EXCEPT !.raised = ""], S, coord)
      [] L.mode \in {"add_path", "add_polygon"} ->
            IF L._creating THEN Dragged(_move([L EXCEPT !.raised = ""], S, coord), coord)
            ELSE Look([L EXCEPT !.raised = ""], S, coord)
      [] OTHER -> Hover([L EXCEPT !.raised = ""], S, coord)

\* the sorted list of a set of shape indices (np.unique)
Unique(T) ==
    CHOOSE list \in [1..Cardinality(T) -> T] :
        \A i, j \in 1..Cardinality(T) : i < j => list[i] < list[j]

\* lines 1159-1176: a release in select or direct mode, over the shape found
\* at the point
ReleaseSelect(L, S, coord, shape, shifted) ==
    [_select(
        [(IF ~L._is_moving /\ ~L._is_selecting /\ ~shifted
          THEN SetSelection(L, S, IF shape[1] # None THEN <<shape[1]>> ELSE <<>>)
          ELSE IF L._is_selecting
          THEN [SetSelection(L, S, Unique(_shapes_in_box(S, L._drag_box))) EXCEPT !._is_selecting = FALSE]
          ELSE L)
         EXCEPT !._is_moving = FALSE,
                !._drag_start = <<>>,
                !._drag_box = <<>>,
                !._fixed_vertex = <<>>,
                !._selected_vertex = <<None, None>>,
                !._hover_shapes = shape])
     EXCEPT !.status = get_message(coord, shape), !.raised = ""]

\* on_mouse_release is modelled where _shape_at is, and with a drag box when a
\* rubber band is open
ReleaseModelled(L) ==
    /\ L.mode \in {"select", "direct"} => ShapeAtByMesh(L)
    /\ L.mode \in {"select", "direct"} /\ L._is_selecting => L._drag_box # <<>>

\* on_mouse_release(event) at the point coord
on_mouse_release(L, S, coord, shifted) ==
    CASE L.mode \in {"select", "direct"} ->
            IF ShapeAt(L, S, coord).raised # ""
            THEN Ctx([L EXCEPT !.raised = ShapeAt(L, S, coord).raised], S)
            ELSE Ctx(ReleaseSelect(L, S, coord, ShapeAt(L, S, coord).value, shifted), S)
      [] L.mode \in {"add_rectangle", "add_ellipse", "add_line"} ->
            Look([_finish_drawing(L) EXCEPT !.raised = ""], FinishData(L, S), coord)
      [] OTHER -> Ctx([L EXCEPT !.raised = ""], S)

RECURSIVE RemoveEach(_, _)
\* lines 530-532: the listed shapes are removed, highest index first
RemoveEach(S, to_remove) ==
    IF to_remove = {} THEN S
    ELSE RemoveEach(remove_one(S, CHOOSE i \in to_remove : \A j \in to_remove : j <= i, TRUE),
                    to_remove \ {CHOOSE i \in to_remove : \A j \in to_remove : j <= i})

\* remove_selected without lines 533-534: the selection and the hover shape
\* are kept
RemoveSelectedKeepSelection(L, S) == Ctx(L, RemoveEach(S, Range(L.selected_shapes)))

\* remove_selected()
remove_selected(L, S) ==
    Ctx([L EXCEPT !.selected_shapes = <<>>, !._selected_box = <<>>,
                  !._hover_shapes = <<None, None>>],
        RemoveEach(S, Range(L.selected_shapes)))

\* the mode that a key of lines 1230-1249 sets
KeyMode(key) ==
    CASE key = "r" -> "add_rectangle"
      [] key = "e" -> "add_ellipse"
      [] key = "l" -> "add_line"
      [] key = "t" -> "add_path"
      [] key = "p" -> "add_polygon"
      [] key = "d" -> "direct"
      [] key = "s" -> "select"
      [] key = "z" -> "pan/zoom"
      [] key = "v" -> "vertex_insert"
      [] key = "x" -> "vertex_remove"
      [] OTHER -> ""

\* lines 1215-1218 without the two assignments that keep the mode and the
\* selection
SpaceDownNoHistory(L, S) == SetModeCtx(L, S, "pan/zoom")

\* lines 1215-1218: space in another mode than pan/zoom keeps the mode and
\* the selection and sets pan/zoom
SpaceDown(L, S) ==
    SetModeCtx([L EXCEPT !._mode_history = L.mode,
                         !._selected_shapes_history = L.selected_shapes],
               S, "pan/zoom")

\* on_key_press(event) for a key other than Shift
on_key_press(L, S, key, isAutoRepeat) ==
    IF isAutoRepeat THEN Ctx(L, S)
    ELSE CASE key = " " ->
                 IF L.mode # "pan/zoom" THEN SpaceDown(L, S)
                 ELSE Ctx([L EXCEPT !._mode_history = "pan/zoom", !.raised = ""], S)
           [] KeyMode(key) # "" -> SetModeCtx(L, S, KeyMode(key))
           [] key = "a" ->
                 IF L.mode \in Family
                 THEN Ctx(_select([SetSelection(L, S, AllShapes(S)) EXCEPT !.raised = ""]), S)
                 ELSE Ctx([L EXCEPT !.raised = ""], S)
           [] key = "Backspace" -> remove_selected([L EXCEPT !.raised = ""], S)
           [] key = "Escape" -> FinishDrawing([L EXCEPT !.raised = ""], S)
           [] OTHER -> Ctx([L EXCEPT !.raised = ""], S)

\* on_key_release is modelled when the shapes of the kept selection are still
\* in the collection
KeyReleaseModelled(L, S) ==
    \A i \in Range(L._selected_shapes_history) : i \in 0..(Len(S.shapes) - 1)

\* the selected_shapes setter (lines 253-256) handed a list that names a shape
\* no longer in the collection: _selected_shapes is assigned first; select_box
\* then raises IndexError for a list of one index (shapes[index[0]]), takes the
\* box of the vertices of the listed shapes that exist for a longer list, and
\* raises on the empty vertex array when none of them exists
SetStaleSelection(L, S, selected_shapes) ==
    IF Len(selected_shapes) = 1
    THEN [L EXCEPT !.selected_shapes = selected_shapes, !.raised = "IndexError"]
    ELSE IF \A k \in DOMAIN S._index : S._index[k] \notin Range(selected_shapes)
    THEN [L EXCEPT !.selected_shapes = selected_shapes, !.raised = "ValueError"]
    ELSE SetSelection(L, S, selected_shapes)

\* lines 1264-1267: the mode and the selection kept by the press come back
SpaceUp(C, L) ==
    IF KeyReleaseModelled(L, C.data)
    THEN Ctx(_select(SetSelection(C.layer, C.data, L._selected_shapes_history)), C.data)
    ELSE IF SetStaleSelection(C.layer, C.data, L._selected_shapes_history).raised # ""
    THEN Ctx(SetStaleSelection(C.layer, C.data, L._selected_shapes_history), C.data)
    ELSE Ctx(_select(SetStaleSelection(C.layer, C.data, L._selected_shapes_history)), C.data)

\* on_key_release(event) for a key other than Shift
on_key_release(L, S, key) ==
    IF key = " " /\ L._mode_history # "pan/zoom"
    THEN SpaceUp(SetModeCtx(L, S, L._mode_history), L)
    ELSE Ctx(L, S)

\* the pointer goes to the point coord and the button is pressed and released
\* there: on_mouse_move, on_mouse_press, on_mouse_release in turn
Click(C, coord) ==
    LET moved == on_mouse_move(C.layer, C.data, coord, FALSE)
        pressed == on_mouse_press(moved.layer, moved.data, coord, FALSE)
    IN on_mouse_release(pressed.layer, pressed.data, coord, FALSE)

RECURSIVE Clicks(_, _)
\* one click at each point of the list in turn
Clicks(C, points) ==
    IF points = <<>> THEN C ELSE Clicks(Click(C, Head(points)), Tail(points))

\* --------------------------------------------------- the Labels controller

LabelModes == {"pan_zoom", "picker", "paint", "fill"}

LabelCursor(mode) ==
    CASE mode = "pan_zoom" -> "standard"
      [] mode = "paint" -> "square"
      [] OTHER -> "cross"

LabelHelp(mode) ==
    CASE mode = "pan_zoom" -> "enter paint or fill mode to edit labels"
      [] mode = "picker" -> "hold <space> to pan/zoom, click to pick a label"
      [] mode = "paint" -> "hold <space> to pan/zoom, drag to paint a label"
      [] OTHER -> "hold <space> to pan/zoom, click to fill a label"

\* the Labels layer after __init__ (lines 79-82)
InitLabels ==
    [mode |-> "pan_zoom", cursor |-> "standard", interactive |-> TRUE,
     help |-> "enter paint or fill mode to edit labels", status |-> "pan_zoom",
     cursor_size |-> "default", _mode_history |-> "pan_zoom",
     mode_events |-> 0, raised |-> ""]

\* the Labels mode setter
SetLabelsMode(L, mode) ==
    IF mode = L.mode THEN [L EXCEPT !.raised = ""]
    ELSE IF mode \notin LabelModes THEN [L EXCEPT !.raised = ModeError]
    ELSE [L EXCEPT !.cursor = LabelCursor(mode),
                   !.interactive = mode = "pan_zoom",
                   !.help = LabelHelp(mode),
                   !.cursor_size = IF mode = "paint" THEN "brush" ELSE @,
                   !.status = mode,
                   !.mode = mode,
                   !.mode_events = @ + 1,
                   !.raised = ""]

\* the mode that a key of lines 632-639 sets
LabelKeyMode(key) ==
    CASE key = "p" -> "paint"
      [] key = "f" -> "fill"
      [] key = "z" -> "pan_zoom"
      [] key = "l" -> "picker"
      [] OTHER -> ""

\* Labels.on_key_press(event)
LabelsKeyPress(L, key, isAutoRepeat) ==
    IF isAutoRepeat THEN L
    ELSE CASE key = " " ->
                 IF L.mode # "pan_zoom"
                 THEN SetLabelsMode([L EXCEPT !._mode_history = L.mode], "pan_zoom")
                 ELSE [L EXCEPT !._mode_history = "pan_zoom", !.raised = ""]
           [] LabelKeyMode(key) # "" -> SetLabelsMode(L, LabelKeyMode(key))
           [] OTHER -> [L EXCEPT !.raised = ""]

\* Labels.on_key_release(event)
LabelsKeyRelease(L, key) ==
    IF key = " " /\ L._mode_history # "pan_zoom" THEN SetLabelsMode(L, L._mode_history)
    ELSE L

\* ----------------------------------------------------------- bounds, inputs

\* the largest number of shapes the collection is grown to
MaxShapes == 2
\* the number of operations applied to the constructed collection in SpecOps
MaxOps == 2
\* the number of mode events a layer emits in SpecCtl
MaxEvents == 2

RectA == _expand_rectangle(<< <<0, 0>>, <<4, 4>> >>)
RectB == _expand_rectangle(<< <<1, 1>>, <<5, 5>> >>)
LineA == << <<0, 0>>, <<4, 0>> >>
PathA == << <<0, 0>>, <<4, 0>>, <<4, 4>> >>

DataOf(shape_type) == IF shape_type = "rectangle" THEN {RectA, RectB} ELSE {LineA, PathA}

ShapeTypes == {"rectangle", "path"}
ZOrders == {0, 1}
Widths == {1, 2}
Colors == {"black", "white", "red"}
Shifts == {<<2, 2>>}
Centers == {<<0, 0>>}
Factors == {2}
Angles == {90}
Axes == {0, 1}
Matrices == {<< <<0, 1>>, <<1, 0>> >>}

\* the pointer positions and the drag boxes the queries are asked for
QueryPoints == {<<3, 2>>, <<2, 0>>, <<7, 7>>}
\* the values handed to the mode setters, the last one no mode of either layer
ModeInputs == Modes \cup {"bogus"}
LabelModeInputs == LabelModes \cup {"bogus"}
\* the lists handed to the selected_shapes setter
Selections == {<<>>, <<0>>, <<1>>, <<0, 1>>}

QueryBoxes == {<< <<1, 1>>, <<3, 3>> >>, << <<3, 3>>, <<7, 7>> >>, << <<7, 7>>, <<9, 9>> >>}

\* the shapes handed to add: default style, any catalogue geometry, any z order
NewShapes ==
    UNION {{Shape(t, d, 1, "black", "white", z) : d \in DataOf(t), z \in ZOrders} :
              t \in ShapeTypes}

\* the lists handed to set and to the constructor
ShapeLists ==
    {<<Shape("rectangle", RectA, 1, "black", "white", 0)>>,
     <<Shape("rectangle", RectA, 1, "black", "white", 0),
       Shape("path", PathA, 1, "black", "white", 1)>>}

\* the opacities handed to the opacity setter: -0.1, 0.0, 0.5, 1.0, 1.1
OpacityInputs == {-1, 0, 5, OpacityOne, OpacityOne + 1}
\* the z order up to which move_to_front is called in SpecCmd
MaxZ == 3

\* the lists of the layers that are given commands
CmdLists ==
    ShapeLists \cup
    {<<Shape("rectangle", RectA, 1, "black", "white", 1),
       Shape("rectangle", RectB, 1, "black", "white", 0)>>}

\* the number of mode events a layer emits in SpecUI
MaxModeEvents == 3
\* the number of vertices up to which a path is drawn in SpecUI
MaxVertices == 3
\* the points of the mouse events: one on the rectangle RectA, one off it
MousePoints == {<<0, 0>>, <<8, 0>>}
\* the keys pressed on the Shapes layer, the last one bound to nothing
Keys == {" ", "Escape", "a", "t", "p", "s", "z", "q"}
\* the keys pressed on the Labels layer, the last one bound to nothing
LabelKeys == {" ", "p", "f", "z", "l", "q"}
\* the list of the layer that takes mouse and key events
UILists == {<<Shape("rectangle", RectA, 1, "black", "white", 0)>>}

\* the longest path handed to path_triangulate
MaxPath == 4
\* the largest number of objects the ShapesData store is grown to
MaxObjects == 3

\* the points of the paths that are triangulated
Grid == {<<x, y>> : x \in {0, 2, 4}, y \in {0, 4}}

\* the arrays path_triangulate returns for no call at all
NoMesh == [centers |-> <<>>, offsets |-> <<>>, faces |-> <<>>]
NoTri == [path |-> <<>>, closed |-> FALSE, bevel |-> FALSE, called |-> FALSE,
          result |-> NoMesh]

\* every segment of the path (the closing one too) runs along an axis or has no
\* length, so that its unit normal has integer or NaN coordinates
AxisAligned(path, closed) ==
    /\ \A k \in 1..(Len(path) - 1) :
          path[k][1] = path[k + 1][1] \/ path[k][2] = path[k + 1][2]
    /\ closed => path[Len(path)][1] = path[1][1] \/ path[Len(path)][2] = path[1][2]

\* the bevels the call makes are at straight or NaN joins, whose offsets have
\* integer or NaN coordinates (a bevel at a right angle has irrational ones)
BevelsExact(mit, closed) ==
    \A i \in (IF closed THEN {0} ELSE {}) \cup 1..(Len(mit) - 2) :
        IsNaN(At(mit, i)) \/ At(mit, i)[1] = 0 \/ At(mit, i)[2] = 0

\* the calls whose numbers this model holds exactly
Representable(path, closed, bevel) ==
    AxisAligned(path, closed) /\ (bevel => BevelsExact(Miters(path, closed), closed))

Paths == UNION {[1..n -> Grid] : n \in 2..MaxPath}

TriInputs ==
    {[path |-> p, closed |-> c, bevel |-> b, called |-> FALSE, result |-> NoMesh] :
        <<p, c, b>> \in {x \in Paths \X BOOLEAN \X BOOLEAN : Representable(x[1], x[2], x[3])}}

\* the paths and rectangles added to the ShapesData store: an L, a straight
\* path, a path that starts with a point twice; two grid rectangles and the
\* rectangle (0,0)-(10,10)
DataPaths ==
    {<< <<0, 0>>, <<4, 0>>, <<4, 4>> >>, << <<0, 0>>, <<2, 0>>, <<4, 0>> >>,
     << <<2, 4>>, <<2, 4>> >>}
DataRectangles ==
    {<< <<0, 0>>, <<4, 4>> >>, << <<4, 4>>, <<2, 0>> >>, << <<0, 0>>, <<10, 10>> >>}

\* the number of transforms applied to the ShapesData store
MaxTransforms == 2
\* the arguments of the transforms of the store: no center, or the point (2, 2)
DataOffsets == {<<>>, <<2, 2>>}
DataAngles == {90, 180}

\* the corners of the ellipses: two opposite corners of a box that is not flat
EllipseCoords == -1..2
EllipseCorners ==
    {<<p, q>> : p \in EllipseCoords \X EllipseCoords, q \in EllipseCoords \X EllipseCoords}
        \ {c \in (EllipseCoords \X EllipseCoords) \X (EllipseCoords \X EllipseCoords) :
              c[1][1] = c[2][1] \/ c[1][2] = c[2][2]}

\* the mouse events of one run of SpecDrag
MaxDragEvents == 5
\* the shapes that are dragged: a square large enough for its interior to lie
\* off the handles of its box, and a horizontal line, whose box has no height
DragRect == _expand_rectangle(<< <<0, 0>>, <<16, 16>> >>)
DragLine == << <<0, 32>>, <<16, 32>> >>
DragLists ==
    {<<Shape("rectangle", DragRect, 1, "black", "white", 0),
       Shape("line", DragLine, 1, "black", "white", 1)>>}
DragSelections == {<<0>>, <<1>>, <<0, 1>>}
\* the points of the mouse events: inside the square, on its lower right
\* corner, off both shapes, and on the right end of the line
DragPoints == {<<8, 8>>, <<16, 16>>, <<24, 24>>, <<16, 32>>}
\* the drag moves that follow one press: up to MaxDragMoves points
MaxDragMoves == 3
DragMoves == UNION {[1..k -> DragPoints] : k \in 1..MaxDragMoves}

\* the clicks that draw one path: up to MaxVertices points
ClickLists == UNION {[1..k -> MousePoints] : k \in 1..MaxVertices}

\* -------------------------------------------------------------------- state

VARIABLES
    data,   \* the ShapesList (the Shapes layer's self.data)
    op,     \* the name of the operation that returned last
    nops,   \* the number of operations applied so far (SpecOps)
    layer,  \* the Shapes layer's own fields
    labels, \* the Labels layer's fields
    tri,    \* one call of path_triangulate: its arguments and what it returned
    sdata,  \* the ShapesData store of gui/layers/shapes_data
    canvas, \* the canvas: mouse button and space key held or not, active layer
    pixels, \* the Labels layer's label image: _raw_image, _max_label, selected label
    surface, \* the Surface layer: its faces, view and events, and the call in progress
    cmap    \* one call of Colormap.map: the colormap, the value and the result

vars == <<data, op, nops, layer, labels, tri, sdata, canvas, pixels, surface, cmap>>

\* a handler has returned: the layer and the collection of shapes are those of
\* the context C it leaves
Handled(C) ==
    /\ layer' = C.layer
    /\ data' = C.data

\* the three layers below are not constructed
NoPixels == [made |-> FALSE]
NoSurface == [made |-> FALSE]
NoMap == [made |-> FALSE]

\* no mouse button and no key is held
Idle == [button |-> FALSE, space |-> FALSE, active |-> "shapes"]

NumShapes == Len(data.shapes)
ShapeIndices == 0..(NumShapes - 1)

\* ShapesList([]): the empty collection
Init ==
    /\ data = EmptyList
    /\ op = "init"
    /\ nops = 0
    /\ layer = InitLayer
    /\ labels = InitLabels
    /\ tri = NoTri
    /\ sdata = EmptyData(1)
    /\ canvas = Idle
    /\ pixels = NoPixels /\ surface = NoSurface /\ cmap = NoMap

Add ==
    /\ NumShapes < MaxShapes
    /\ \E shape \in NewShapes : data' = add(data, shape)
    /\ op' = "add"

RemoveOne ==
    /\ \E index \in ShapeIndices : data' = remove_one(data, index, TRUE)
    /\ op' = "remove_one"

RemoveAll ==
    /\ data' = remove_all(data)
    /\ op' = "remove_all"

Set ==
    /\ \E list \in ShapeLists : Len(list) <= MaxShapes /\ data' = set(data, list)
    /\ op' = "set"

Edit ==
    /\ \E index \in ShapeIndices :
          \E d \in DataOf(data.shapes[index + 1].shape_type) : data' = edit(data, index, d)
    /\ op' = "edit"

UpdateZOrder ==
    /\ \E index \in ShapeIndices, z \in ZOrders : data' = update_z_order(data, index, z)
    /\ op' = "update_z_order"

UpdateEdgeWidth ==
    /\ \E index \in ShapeIndices, w \in Widths : data' = update_edge_width(data, index, w)
    /\ op' = "update_edge_width"

UpdateEdgeColor ==
    /\ \E index \in ShapeIndices, c \in Colors : data' = update_edge_color(data, index, c)
    /\ op' = "update_edge_color"

UpdateFaceColor ==
    /\ \E index \in ShapeIndices, c \in Colors : data' = update_face_color(data, index, c)
    /\ op' = "update_face_color"

Shift ==
    /\ \E index \in ShapeIndices, delta \in Shifts : data' = shift(data, index, delta)
    /\ op' = "shift"

Scale ==
    /\ \E index \in ShapeIndices, f \in Factors, c \in Centers :
          data' = scale(data, index, f, c)
    /\ op' = "scale"

Rotate ==
    /\ \E index \in ShapeIndices, a \in Angles, c \in Centers :
          data' = rotate(data, index, a, c)
    /\ op' = "rotate"

Flip ==
    /\ \E index \in ShapeIndices, axis \in Axes, c \in Centers :
          data' = flip(data, index, axis, c)
    /\ op' = "flip"

Transform ==
    /\ \E index \in ShapeIndices, m \in Matrices : data' = transform(data, index, m)
    /\ op' = "transform"

\* the collection under add, remove_one, remove_all, set and edit
Next ==
    \/ Add /\ UNCHANGED <<nops, layer, labels, tri, sdata, canvas, pixels, surface, cmap>>
    \/ RemoveOne /\ UNCHANGED <<nops, layer, labels, tri, sdata, canvas, pixels, surface, cmap>>
    \/ RemoveAll /\ UNCHANGED <<nops, layer, labels, tri, sdata, canvas, pixels, surface, cmap>>
    \/ Set /\ UNCHANGED <<nops, layer, labels, tri, sdata, canvas, pixels, surface, cmap>>
    \/ Edit /\ UNCHANGED <<nops, layer, labels, tri, sdata, canvas, pixels, surface, cmap>>

Spec == Init /\ [][Next]_vars

\* ShapesList(shapes) for a list of the catalogue
InitOps ==
    /\ \E list \in ShapeLists : data = set(EmptyList, list)
    /\ op = "init"
    /\ nops = 0
    /\ layer = InitLayer
    /\ labels = InitLabels
    /\ tri = NoTri
    /\ sdata = EmptyData(1)
    /\ canvas = Idle
    /\ pixels = NoPixels /\ surface = NoSurface /\ cmap = NoMap

\* one more operation is counted, up to MaxOps
Tick == nops < MaxOps /\ nops' = nops + 1 /\ UNCHANGED <<layer, labels, tri, sdata, canvas, pixels, surface, cmap>>

\* every operation of the collection, at most MaxOps of them in a row
NextOps ==
    \/ Tick /\ Add
    \/ Tick /\ RemoveOne
    \/ Tick /\ RemoveAll
    \/ Tick /\ Set
    \/ Tick /\ Edit
    \/ Tick /\ UpdateZOrder
    \/ Tick /\ UpdateEdgeWidth
    \/ Tick /\ UpdateEdgeColor
    \/ Tick /\ UpdateFaceColor
    \/ Tick /\ Shift
    \/ Tick /\ Scale
    \/ Tick /\ Rotate
    \/ Tick /\ Flip
    \/ Tick /\ Transform

SpecOps == InitOps /\ [][NextOps]_vars

\* the mode setter of the Shapes layer, for every value it may be handed
SetMode ==
    /\ \E mode \in ModeInputs :
          /\ mode \in Modes \ {layer.mode} => layer.mode_events < MaxEvents
          /\ layer' = SetModeLayer(layer, mode)
          /\ data' = SetModeData(layer, data, mode)
    /\ op' = "mode"
    /\ UNCHANGED <<nops, labels, tri, sdata, canvas, pixels, surface, cmap>>

\* layer.selected_shapes = list, for a list of shape indices
SetSelectedShapes ==
    /\ \E list \in Selections :
          /\ Range(list) \subseteq ShapeIndices
          /\ layer' = SetSelection(layer, data, list)
    /\ op' = "selected_shapes"
    /\ UNCHANGED <<data, nops, labels, tri, sdata, canvas, pixels, surface, cmap>>

\* the mode setter of the Labels layer
SetLabelsModeTo ==
    /\ \E mode \in LabelModeInputs :
          /\ mode \in LabelModes \ {labels.mode} => labels.mode_events < MaxEvents
          /\ labels' = SetLabelsMode(labels, mode)
    /\ op' = "labels_mode"
    /\ UNCHANGED <<data, nops, layer, tri, sdata, canvas, pixels, surface, cmap>>

\* Shapes(data) for a list of the catalogue, beside a Labels layer
InitCtl ==
    /\ \E list \in ShapeLists : data = set(EmptyList, list)
    /\ op = "init"
    /\ nops = 0
    /\ layer = InitLayer
    /\ labels = InitLabels
    /\ tri = NoTri
    /\ sdata = EmptyData(1)
    /\ canvas = Idle
    /\ pixels = NoPixels /\ surface = NoSurface /\ cmap = NoMap

NextCtl == SetMode \/ SetSelectedShapes \/ SetLabelsModeTo

SpecCtl == InitCtl /\ [][NextCtl]_vars

\* layer.opacity = opacity
SetOpacity ==
    /\ \E opacity \in OpacityInputs :
          /\ opacity \in 0..OpacityOne => layer.opacity_events < MaxEvents
          /\ layer' = SetOpacityLayer(layer, opacity)
          /\ data' = SetOpacityData(layer, data, opacity)
    /\ op' = "opacity"
    /\ UNCHANGED <<nops, labels, tri, sdata, canvas, pixels, surface, cmap>>

\* layer.apply_all = apply_all
SetApplyAll ==
    /\ \E apply_all \in BOOLEAN : layer' = [layer EXCEPT !._apply_all = apply_all, !.raised = ""]
    /\ op' = "apply_all"
    /\ UNCHANGED <<data, nops, labels, tri, sdata, canvas, pixels, surface, cmap>>

\* layer.move_to_front()
MoveToFront ==
    /\ SeqMax(data._z_order) < MaxZ
    /\ data' = move_to_front(layer, data)
    /\ layer' = [layer EXCEPT !.raised = ""]
    /\ op' = "move_to_front"
    /\ UNCHANGED <<nops, labels, tri, sdata, canvas, pixels, surface, cmap>>

\* Shapes(data) for a list of overlapping shapes
InitCmd ==
    /\ \E list \in CmdLists : data = set(EmptyList, list)
    /\ op = "init"
    /\ nops = 0
    /\ layer = InitLayer
    /\ labels = InitLabels
    /\ tri = NoTri
    /\ sdata = EmptyData(1)
    /\ canvas = Idle
    /\ pixels = NoPixels /\ surface = NoSurface /\ cmap = NoMap

NextCmd == SetSelectedShapes \/ SetOpacity \/ SetApplyAll \/ MoveToFront

SpecCmd == InitCmd /\ [][NextCmd]_vars

\* what a handler of the Shapes layer leaves is within the bounds
WithinBounds(C) ==
    /\ C.layer.mode_events <= MaxModeEvents
    /\ Len(C.data.shapes) <= MaxShapes
    /\ C.layer._selected_vertex[2] < MaxVertices
    /\ \A i \in 0..(Len(C.data.shapes) - 1) :
          C.data.shapes[i + 1].shape_type = "path" => Len(VerticesOf(C.data, i)) <= MaxVertices

\* the handler's context C is within the bounds and the handler has returned
HandledWithinBounds(C) == WithinBounds(C) /\ Handled(C)

\* the mouse button goes down at a point of the canvas
MousePress ==
    /\ canvas.active = "shapes"
    /\ ~canvas.button
    /\ PressModelled(layer)
    /\ \E coord \in MousePoints :
          /\ HandledWithinBounds(on_mouse_press(layer, data, coord, FALSE))
    /\ canvas' = [canvas EXCEPT !.button = TRUE]
    /\ op' = "on_mouse_press"
    /\ UNCHANGED <<nops, labels, tri, sdata, pixels, surface, cmap>>

\* the mouse moves to a point of the canvas, dragging when the button is down
MouseMove ==
    /\ canvas.active = "shapes"
    /\ MoveHandled(layer, canvas.button)
    /\ \E coord \in MousePoints :
          /\ Handled(on_mouse_move(layer, data, coord, canvas.button))
    /\ op' = "on_mouse_move"
    /\ UNCHANGED <<nops, labels, tri, sdata, canvas, pixels, surface, cmap>>

\* the mouse button goes up at a point of the canvas
MouseRelease ==
    /\ canvas.active = "shapes"
    /\ canvas.button
    /\ ReleaseModelled(layer)
    /\ \E coord \in MousePoints :
          /\ Handled(on_mouse_release(layer, data, coord, FALSE))
    /\ canvas' = [canvas EXCEPT !.button = FALSE]
    /\ op' = "on_mouse_release"
    /\ UNCHANGED <<nops, labels, tri, sdata, pixels, surface, cmap>>

\* a key goes down on the Shapes layer; space repeats while it is held
KeyPress ==
    /\ canvas.active = "shapes"
    /\ \E key \in Keys :
          /\ key = " " => ~canvas.space
          /\ HandledWithinBounds(on_key_press(layer, data, key, FALSE))
          /\ canvas' = [canvas EXCEPT !.space = @ \/ key = " "]
    /\ op' = "on_key_press"
    /\ UNCHANGED <<nops, labels, tri, sdata, pixels, surface, cmap>>

\* the held space key repeats
KeyRepeat ==
    /\ canvas.active = "shapes"
    /\ canvas.space
    /\ Handled(on_key_press(layer, data, " ", TRUE))
    /\ op' = "on_key_press_repeat"
    /\ UNCHANGED <<nops, labels, tri, sdata, canvas, pixels, surface, cmap>>

\* the space key goes up on the Shapes layer
KeyRelease ==
    /\ canvas.active = "shapes"
    /\ canvas.space
    /\ KeyReleaseModelled(layer, data)
    /\ HandledWithinBounds(on_key_release(layer, data, " "))
    /\ canvas' = [canvas EXCEPT !.space = FALSE]
    /\ op' = "on_key_release"
    /\ UNCHANGED <<nops, labels, tri, sdata, pixels, surface, cmap>>

\* a key goes down on the Labels layer
LabelsPress ==
    /\ canvas.active = "labels"
    /\ \E key \in LabelKeys :
          /\ key = " " => ~canvas.space
          /\ LabelsKeyPress(labels, key, FALSE).mode_events <= MaxModeEvents
          /\ labels' = LabelsKeyPress(labels, key, FALSE)
          /\ canvas' = [canvas EXCEPT !.space = @ \/ key = " "]
    /\ op' = "labels_on_key_press"
    /\ UNCHANGED <<data, nops, layer, tri, sdata, pixels, surface, cmap>>

\* the held space key repeats on the Labels layer
LabelsRepeat ==
    /\ canvas.active = "labels"
    /\ canvas.space
    /\ labels' = LabelsKeyPress(labels, " ", TRUE)
    /\ op' = "labels_on_key_press_repeat"
    /\ UNCHANGED <<data, nops, layer, tri, sdata, canvas, pixels, surface, cmap>>

\* the space key goes up on the Labels layer
LabelsRelease ==
    /\ canvas.active = "labels"
    /\ canvas.space
    /\ LabelsKeyRelease(labels, " ").mode_events <= MaxModeEvents
    /\ labels' = LabelsKeyRelease(labels, " ")
    /\ canvas' = [canvas EXCEPT !.space = FALSE]
    /\ op' = "labels_on_key_release"
    /\ UNCHANGED <<data, nops, layer, tri, sdata, pixels, surface, cmap>>

\* Shapes(data) beside a Labels layer, one of them the active layer that takes
\* the events of the canvas
InitUI ==
    /\ \E list \in UILists : data = set(EmptyList, list)
    /\ op = "init"
    /\ nops = 0
    /\ layer = InitLayer
    /\ labels = InitLabels
    /\ tri = NoTri
    /\ sdata = EmptyData(1)
    /\ \E active \in {"shapes", "labels"} : canvas = [Idle EXCEPT !.active = active]
    /\ pixels = NoPixels /\ surface = NoSurface /\ cmap = NoMap

NextUI ==
    \/ MousePress
    \/ MouseMove
    \/ MouseRelease
    \/ KeyPress
    \/ KeyRepeat
    \/ KeyRelease
    \/ LabelsPress
    \/ LabelsRepeat
    \/ LabelsRelease

SpecUI == InitUI /\ [][NextUI]_vars

\* nan among the vertices of the collection
HasNaN(S) == \E k \in DOMAIN S._vertices : IsNaN(S._vertices[k])

\* a drag move is modelled but for the rotation (lines 817-840) and the
\* resizes that ResizeModelled leaves out
DragMoveModelled(L, S, coord, is_dragging) ==
    is_dragging /\ L.selected_shapes # <<>> /\ L._selected_vertex[2] # None
        => L._selected_vertex[2] < 8 /\ ResizeModelled(L, S, coord)

\* the mouse button goes down in select mode
DragPress ==
    /\ ~canvas.button
    /\ nops < MaxDragEvents
    /\ ~HasNaN(data)
    /\ \E coord \in DragPoints :
          /\ Handled(on_mouse_press(layer, data, coord, FALSE))
    /\ canvas' = [canvas EXCEPT !.button = TRUE]
    /\ op' = "on_mouse_press"
    /\ nops' = nops + 1
    /\ UNCHANGED <<labels, tri, sdata, pixels, surface, cmap>>

\* the mouse moves in select mode, dragging when the button is down
DragMove ==
    /\ nops < MaxDragEvents
    /\ ~HasNaN(data)
    /\ \E coord \in DragPoints :
          /\ DragMoveModelled(layer, data, coord, canvas.button)
          /\ Handled(on_mouse_move(layer, data, coord, canvas.button))
    /\ op' = "on_mouse_move"
    /\ nops' = nops + 1
    /\ UNCHANGED <<labels, tri, sdata, canvas, pixels, surface, cmap>>

\* the mouse button goes up in select mode
DragRelease ==
    /\ canvas.button
    /\ nops < MaxDragEvents
    /\ ~HasNaN(data)
    /\ \E coord \in DragPoints :
          /\ Handled(on_mouse_release(layer, data, coord, FALSE))
    /\ canvas' = [canvas EXCEPT !.button = FALSE]
    /\ op' = "on_mouse_release"
    /\ nops' = nops + 1
    /\ UNCHANGED <<labels, tri, sdata, pixels, surface, cmap>>

\* Shapes(data) in select mode with some of its shapes selected
InitDrag ==
    /\ \E list \in DragLists : data = set(EmptyList, list)
    /\ \E list \in DragSelections :
          layer = SetSelection(SetModeLayer(InitLayer, "select"), data, list)
    /\ op = "init"
    /\ nops = 0
    /\ labels = InitLabels
    /\ tri = NoTri
    /\ sdata = EmptyData(1)
    /\ canvas = Idle
    /\ pixels = NoPixels /\ surface = NoSurface /\ cmap = NoMap

NextDrag == DragPress \/ DragMove \/ DragRelease

SpecDrag == InitDrag /\ [][NextDrag]_vars

\* path_triangulate(path, closed, limit=5, bevel) is called and returns
Triangulate ==
    /\ ~tri.called
    /\ tri' = [tri EXCEPT !.called = TRUE,
                          !.result = path_triangulate(tri.path, tri.closed, tri.bevel)]
    /\ op' = "path_triangulate"
    /\ UNCHANGED <<data, nops, layer, labels, sdata, canvas, pixels, surface, cmap>>

\* one call of path_triangulate for every representable path, open or closed,
\* with or without forced bevels
InitTri ==
    /\ data = EmptyList
    /\ op = "init"
    /\ nops = 0
    /\ layer = InitLayer
    /\ labels = InitLabels
    /\ tri \in TriInputs
    /\ sdata = EmptyData(1)
    /\ canvas = Idle
    /\ pixels = NoPixels /\ surface = NoSurface /\ cmap = NoMap

NextTri == Triangulate

SpecTri == InitTri /\ [][NextTri]_vars

\* ShapesData._add_paths([path])
AddPaths ==
    /\ Len(sdata.id) < MaxObjects
    /\ \E path \in DataPaths : sdata' = _add_paths(sdata, <<path>>)
    /\ op' = "_add_paths"
    /\ UNCHANGED <<data, nops, layer, labels, tri, canvas, pixels, surface, cmap>>

\* ShapesData._add_rectangles([rectangle])
AddRectangles ==
    /\ Len(sdata.id) < MaxObjects
    /\ \E rectangle \in DataRectangles : sdata' = _add_rectangles(sdata, <<rectangle>>)
    /\ op' = "_add_rectangles"
    /\ UNCHANGED <<data, nops, layer, labels, tri, canvas, pixels, surface, cmap>>

\* ShapesData(thickness=w) with no shapes
InitData ==
    /\ data = EmptyList
    /\ op = "init"
    /\ nops = 0
    /\ layer = InitLayer
    /\ labels = InitLabels
    /\ tri = NoTri
    /\ \E w \in Widths : sdata = EmptyData(w)
    /\ canvas = Idle
    /\ pixels = NoPixels /\ surface = NoSurface /\ cmap = NoMap

NextData == AddPaths \/ AddRectangles

SpecData == InitData /\ [][NextData]_vars

\* one more transform of the store is counted, up to MaxTransforms
TickTransform ==
    /\ nops < MaxTransforms
    /\ nops' = nops + 1
    /\ UNCHANGED <<data, layer, labels, tri, canvas, pixels, surface, cmap>>

ShiftShapes ==
    /\ TickTransform
    /\ \E index \in 0..(Len(sdata.id) - 1), offset \in Shifts :
          sdata' = shift_shapes(sdata, offset, index)
    /\ op' = "shift_shapes"

ScaleShapes ==
    /\ TickTransform
    /\ \E index \in 0..(Len(sdata.id) - 1), factor \in Factors, offset \in DataOffsets :
          sdata' = scale_shapes(sdata, factor, offset, index)
    /\ op' = "scale_shapes"

FlipVerticalShapes ==
    /\ TickTransform
    /\ \E index \in 0..(Len(sdata.id) - 1), offset \in DataOffsets :
          sdata' = flip_vertical_shapes(sdata, offset, index)
    /\ op' = "flip_vertical_shapes"

FlipHorizontalShapes ==
    /\ TickTransform
    /\ \E index \in 0..(Len(sdata.id) - 1), offset \in DataOffsets :
          sdata' = flip_horizontal_shapes(sdata, offset, index)
    /\ op' = "flip_horizontal_shapes"

RotateShapes ==
    /\ TickTransform
    /\ \E index \in 0..(Len(sdata.id) - 1), angle \in DataAngles, offset \in DataOffsets :
          sdata' = rotate_shapes(sdata, angle, offset, index)
    /\ op' = "rotate_shapes"

\* ShapesData(rectangles=[rectangle], paths=[path], thickness=w): __init__
\* adds the rectangles, then the paths
InitTransforms ==
    /\ data = EmptyList
    /\ op = "init"
    /\ nops = 0
    /\ layer = InitLayer
    /\ labels = InitLabels
    /\ tri = NoTri
    /\ \E w \in Widths, rectangle \in DataRectangles, path \in DataPaths :
          sdata = _add_paths(_add_rectangles(EmptyData(w), <<rectangle>>), <<path>>)
    /\ canvas = Idle
    /\ pixels = NoPixels /\ surface = NoSurface /\ cmap = NoMap

\* ShapesData._add_ellipses([corners]): the meshes of the one ellipse
AddEllipses ==
    /\ ~tri.called
    /\ tri' = EllipseMeshes(tri.corners)
    /\ op' = "_add_ellipses"
    /\ UNCHANGED <<data, nops, layer, labels, sdata, canvas, pixels, surface, cmap>>

\* one ellipse for every pair of opposite corners of the grid
InitEllipses ==
    /\ data = EmptyList
    /\ op = "init"
    /\ nops = 0
    /\ layer = InitLayer
    /\ labels = InitLabels
    /\ \E corners \in EllipseCorners : tri = [corners |-> corners, called |-> FALSE]
    /\ sdata = EmptyData(1)
    /\ canvas = Idle
    /\ pixels = NoPixels /\ surface = NoSurface /\ cmap = NoMap

NextEllipses == AddEllipses

SpecEllipses == InitEllipses /\ [][NextEllipses]_vars

NextTransforms ==
    \/ ShiftShapes
    \/ ScaleShapes
    \/ FlipVerticalShapes
    \/ FlipHorizontalShapes
    \/ RotateShapes

SpecTransforms == InitTransforms /\ [][NextTransforms]_vars

\* --------------------------------------------------------------- properties

TagShapes(tags) == {tags[k][1] : k \in DOMAIN tags}

\* what remove_one(i) must leave of the index array: the entries other than i,
\* in order, those above i lowered by one
IndexAfterRemove(indices, i) ==
    LET kept == Mask(indices, {k \in DOMAIN indices : indices[k] # i})
    IN [k \in 1..Len(kept) |-> IF kept[k] > i THEN kept[k] - 1 ELSE kept[k]]

\* the same for a tag array of (shape index, face/edge) rows
TagsAfterRemove(tags, i) ==
    LET kept == Mask(tags, {k \in DOMAIN tags : tags[k][1] # i})
    IN [k \in 1..Len(kept) |-> <<IF kept[k][1] > i THEN kept[k][1] - 1 ELSE kept[k][1],
                                 kept[k][2]>>]

\* R is what remove_one(i, renumber=True) must make of S
RemovePost(S, R, i) ==
    /\ Len(R.shapes) = Len(S.shapes) - 1
    /\ R._index = IndexAfterRemove(S._index, i)
    /\ R._mesh_vertices_index = TagsAfterRemove(S._mesh_vertices_index, i)
    /\ R._mesh_triangles_index = TagsAfterRemove(S._mesh_triangles_index, i)
    /\ Len(R._vertices) = Len(R._index)
    /\ Len(R._mesh_vertices) = Len(R._mesh_vertices_index)
    /\ Len(R._mesh_triangles) = Len(R._mesh_triangles_index)
    /\ Range(R._index) = 0..(Len(S.shapes) - 2)
    /\ TagShapes(R._mesh_vertices_index) = 0..(Len(S.shapes) - 2)
    /\ TagShapes(R._mesh_triangles_index) = 0..(Len(S.shapes) - 2)

\* C2: remove_one(i) with renumber=True on N shapes leaves N-1 shapes, deletes
\* every vertex, mesh vertex and triangle tagged i, lowers by one every shape
\* index above i in the three index arrays, leaves the smaller ones, and the
\* shape indices that remain are exactly 0..N-2
C2_RemoveOneRenumbers ==
    \A i \in ShapeIndices : RemovePost(data, remove_one(data, i, TRUE), i)

\* a removal has left one shape, which every index array numbers 0
C2_Witness ==
    /\ op = "remove_one"
    /\ NumShapes = 1
    /\ Range(data._index) = {0}
    /\ TagShapes(data._mesh_vertices_index) = {0}
    /\ TagShapes(data._mesh_triangles_index) = {0}

\* C3: add(shape) followed by remove_one of the index add assigned restores the
\* shapes list, the per-shape z order and every flattened array
C3_AddRemoveRoundTrip ==
    \A shape \in NewShapes : remove_one(add(data, shape), NumShapes, TRUE) = data

\* the round trip on a collection that holds a shape whose mesh an edit moved
C3_Witness ==
    /\ op = "edit"
    /\ NumShapes >= 1
    /\ \E shape \in NewShapes : remove_one(add(data, shape), NumShapes, TRUE) = data

\* triangle k as it is drawn: its corner coordinates, face/edge tag, color, z order
Drawn(S, k) ==
    [corners |-> Corners(S, k), type |-> S._mesh_triangles_index[k][2],
     color |-> S._mesh_triangles_colors[k], z |-> S._mesh_triangles_z_order[k]]

\* the triangles of shape j as they are drawn, in array order
TrianglesOf(S, j) ==
    Mask([k \in DOMAIN S._mesh_triangles |-> Drawn(S, k)],
         {k \in DOMAIN S._mesh_triangles_index : S._mesh_triangles_index[k][1] = j})

\* E is what edit(i, d) must make of S
EditPost(S, E, i, d) ==
    /\ Len(E.shapes) = Len(S.shapes)
    /\ E.shapes = [S.shapes EXCEPT ![i + 1].data = d]
    /\ \A j \in (0..(Len(S.shapes) - 1)) \ {i} :
          /\ VerticesOf(E, j) = VerticesOf(S, j)
          /\ TrianglesOf(E, j) = TrianglesOf(S, j)
    /\ VerticesOf(E, i) = d
    /\ TrianglesOf(E, i) = TrianglesOf(add(EmptyList, E.shapes[i + 1]), 0)
    /\ E = add_at(remove_one([S EXCEPT !.shapes[i + 1].data = d], i, FALSE),
                  E.shapes[i + 1], i)

\* C4: edit(index, data) is remove_one(index, renumber=False) then add(shape,
\* shape_index=index): the number of shapes and every other shape's index,
\* vertices, triangle coordinates and colors are unchanged, and the edited
\* shape's entries are those derived from the new data under the same index
C4_EditInPlace ==
    \A i \in ShapeIndices :
        \A d \in DataOf(data.shapes[i + 1].shape_type) :
            EditPost(data, edit(data, i, d), i, d)

\* an edit of shape 0 has moved its rows behind those of shape 1
C4_Witness ==
    /\ op = "edit"
    /\ NumShapes = 2
    /\ data._index[1] = 1
    /\ data._mesh_vertices_index[1][1] = 1

\* the number of vertices of all shapes
TotalVertices(S) == SumSeq([k \in DOMAIN S.shapes |-> Len(S.shapes[k].data)])

\* C5: after every collection operation the parallel arrays are consistent: the
\* vertex array and its index array are as long as the shapes' vertex counts
\* sum to, the mesh vertex array is as long as its tag array, the triangle, tag,
\* color and z order arrays are equally long, and there is one z order per shape
C5_ArraysConsistent ==
    /\ Len(data._vertices) = Len(data._index)
    /\ Len(data._vertices) = TotalVertices(data)
    /\ Len(data._mesh_vertices) = Len(data._mesh_vertices_index)
    /\ Len(data._mesh_triangles) = Len(data._mesh_triangles_index)
    /\ Len(data._mesh_triangles) = Len(data._mesh_triangles_colors)
    /\ Len(data._mesh_triangles) = Len(data._mesh_triangles_z_order)
    /\ Len(data._z_order) = Len(data.shapes)

\* two operations in a row, the second a style or geometry update of a shape
C5_Witness ==
    /\ nops = 2
    /\ op \in {"update_edge_width", "update_z_order", "shift", "transform", "edit"}
    /\ NumShapes >= 1

\* C6: after any sequence of add, remove_one, edit and update_z_order the per-shape
\* z order array entry of every shape is its z_order, and every triangle's z
\* order entry is the z_order of the shape its tag names
C6_ZOrderAgrees ==
    /\ \A i \in ShapeIndices : data._z_order[i + 1] = data.shapes[i + 1].z_order
    /\ \A k \in DOMAIN data._mesh_triangles_z_order :
          data._mesh_triangles_z_order[k]
              = data.shapes[data._mesh_triangles_index[k][1] + 1].z_order

CornerInBox(corner, bmin, bmax) == AllGeq(corner, bmin) /\ AllGeq(bmax, corner)

\* the shapes with a triangle that has a corner in the box
ShapesWithCornerIn(S, bmin, bmax) ==
    {S._mesh_triangles_index[k][1] :
        k \in {j \in DOMAIN S._mesh_triangles :
                  \E i \in 1..3 : CornerInBox(Corners(S, j)[i], bmin, bmax)}}

\* C8: the shapes-in-box query returns exactly the shape indices for which a
\* mesh triangle has a corner inside the box
C8_ShapesInBoxExact ==
    \A box \in QueryBoxes :
        _shapes_in_box(data, box)
            = ShapesWithCornerIn(data, VScale(2, BoxMinMax(box)[1]),
                                 VScale(2, BoxMinMax(box)[2]))

\* C9: setting the mode to an unrecognized value raises an error and leaves the
\* layer as it was: mode, cursor, interactive flag, help, selection and the
\* creation and drag flags are unchanged and no mode event is emitted; the same
\* for the Labels layer
C9_InvalidModeRaises ==
    /\ \A mode \in ModeInputs \ Modes :
          /\ SetModeLayer(layer, mode).raised = ModeError
          /\ [SetModeLayer(layer, mode) EXCEPT !.raised = layer.raised] = layer
          /\ SetModeData(layer, data, mode) = data
    /\ \A mode \in LabelModeInputs \ LabelModes :
          /\ SetLabelsMode(labels, mode).raised = ModeError
          /\ [SetLabelsMode(labels, mode) EXCEPT !.raised = labels.raised] = labels

\* the setter has raised on a layer that had left its first mode, held a
\* selection and had emitted mode events
C9_Witness ==
    /\ op = "mode"
    /\ layer.raised = ModeError
    /\ layer.mode # "pan/zoom"
    /\ layer.selected_shapes # <<>>
    /\ layer.mode_events > 0

\* C10: a change of mode within select, direct, vertex_insert, vertex_remove
\* leaves the selected shapes as they were; any other change to a different
\* mode leaves the selection empty
C10_SelectionAcrossModes ==
    \A mode \in Modes \ {layer.mode} :
        IF mode \in Family /\ layer.mode \in Family
        THEN SetModeLayer(layer, mode).selected_shapes = layer.selected_shapes
        ELSE SetModeLayer(layer, mode).selected_shapes = <<>>

\* a change of mode has kept a selection of two shapes
C10_Witness ==
    /\ op = "mode"
    /\ layer.raised = ""
    /\ layer.mode \in Family
    /\ Len(layer.selected_shapes) = 2

\* C15: for every input path, open or closed, with any mix of miter and bevel
\* joins, path_triangulate returns a centers array and an offsets array of the
\* same length, and every index of the returned triangles is below that length
C15_CentersOffsetsAgree ==
    tri.called =>
        /\ Len(tri.result.centers) = Len(tri.result.offsets)
        /\ \A k \in DOMAIN tri.result.faces : \A j \in 1..3 :
              tri.result.faces[k][j] \in 0..(Len(tri.result.centers) - 1)

\* the joins at which path_triangulate may bevel: every vertex strictly inside
\* the full path, and the first one of a closed path
BevelJoins(path, closed) ==
    (IF closed THEN {0} ELSE {}) \cup 1..(Len(FullPath(path, closed)) - 2)

\* no join of the call is beveled
NoBevel(path, closed, bevel) ==
    \A i \in BevelJoins(path, closed) :
        ~(bevel \/ TooLong(At(Miters(path, closed), i)))

\* entries 2k and 2k+1 (0-based) are the pair of point k
PairsFollowPath(r, path) ==
    /\ Len(r.centers) = 2 * Len(path)
    /\ Len(r.offsets) = 2 * Len(path)
    /\ \A k \in 1..Len(path) : r.centers[2 * k - 1] = path[k] /\ r.centers[2 * k] = path[k]

\* triangle f joins the pair starting at entry lo to the pair starting at hi
JoinsPairs(f, lo, hi) ==
    /\ Range(f) \subseteq {lo, lo + 1, hi, hi + 1}
    /\ Range(f) \cap {lo, lo + 1} # {}
    /\ Range(f) \cap {hi, hi + 1} # {}

\* segment s (1-based) has the triangles 2s-1 and 2s, between its two pairs
SegmentTriangles(r, s) ==
    /\ JoinsPairs(r.faces[2 * s - 1], 2 * (s - 1), 2 * s)
    /\ JoinsPairs(r.faces[2 * s], 2 * (s - 1), 2 * s)

\* C16: an open path of N >= 2 points with no beveled join gives 2N center and
\* offset entries, two per point, and 2(N-1) triangles, two per segment; a
\* closed path of N points with no beveled join gives 2N entries and 2N
\* triangles, the last two joining the final pair back to entries 0 and 1
C16_TriangleCounts ==
    (tri.called /\ NoBevel(tri.path, tri.closed, tri.bevel)) =>
        /\ PairsFollowPath(tri.result, tri.path)
        /\ \A s \in 1..(Len(tri.path) - 1) : SegmentTriangles(tri.result, s)
        /\ IF tri.closed
           THEN /\ Len(tri.result.faces) = 2 * Len(tri.path)
                /\ JoinsPairs(tri.result.faces[2 * Len(tri.path) - 1],
                              2 * (Len(tri.path) - 1), 0)
                /\ JoinsPairs(tri.result.faces[2 * Len(tri.path)],
                              2 * (Len(tri.path) - 1), 0)
           ELSE Len(tri.result.faces) = 2 * (Len(tri.path) - 1)

\* a closed path of 4 points around a square has been triangulated without bevels
C16_Witness ==
    /\ tri.called
    /\ tri.closed
    /\ ~tri.bevel
    /\ tri.path = << <<0, 0>>, <<4, 0>>, <<4, 4>>, <<0, 4>> >>
    /\ Len(tri.result.faces) = 8

\* twice the signed area of triangle f over the (doubled) vertices v, times 4
Area2(v, f) == Cross(VSub(At(v, f[2]), At(v, f[1])), VSub(At(v, f[3]), At(v, f[1])))

\* the four corners of an axis-aligned square, each once, in order round it
IsSquarePath(path) ==
    /\ Len(path) = 4
    /\ Cardinality(Range(path)) = 4
    /\ \A k \in 1..3 :
          \/ path[k][1] = path[k + 1][1] /\ Abs(path[k][2] - path[k + 1][2]) = 4
          \/ path[k][2] = path[k + 1][2] /\ Abs(path[k][1] - path[k + 1][1]) = 4

\* C17: for a 4-point open axis-aligned square path and positive thickness,
\* every triangle of path_triangulate, with vertex = center + thickness * offset,
\* has positive signed area
C17_SquareWinding ==
    (tri.called /\ ~tri.closed /\ ~tri.bevel /\ IsSquarePath(tri.path)) =>
        \A w \in Widths : \A k \in DOMAIN tri.result.faces :
            Area2(StrokeVertices(tri.result, w), tri.result.faces[k]) > 0

\* the path holds the same point twice in a row
HasZeroSegment(path) == \E k \in 1..(Len(path) - 1) : path[k] = path[k + 1]

\* C18: triangulating a path with two identical consecutive points fails: no
\* mesh is returned, none is appended and the store is as before the call
C18_DegenerateFails ==
    (tri.called /\ HasZeroSegment(tri.path)) =>
        /\ tri.result = NoMesh
        /\ _add_paths(sdata, <<tri.path>>) = sdata

\* the positions (1-based, in order) of the rows carrying the given tag
RowsTagged(tags, tag) == Mask([k \in 1..Len(tags) |-> k], {k \in DOMAIN tags : tags[k] = tag})

\* the rows of an array that carry the given tag in the index array beside it
Pick(rows, tags, tag) ==
    [i \in 1..Len(RowsTagged(tags, tag)) |-> rows[RowsTagged(tags, tag)[i]]]

\* the rectangles of the store, by object index
RectangleObjects == {j \in 0..(Len(sdata.id) - 1) : sdata.id[j + 1] = 1}

\* width times height of the box of object j
BoxArea(j) ==
    (sdata.boxes[j + 1][5][1] - sdata.boxes[j + 1][1][1])
        * (sdata.boxes[j + 1][5][2] - sdata.boxes[j + 1][1][2])

\* the two triangles f and g over the rows first..first+3 of the mesh vertices
\* share a diagonal, lie on opposite sides of it and have the given total area
CoversOnce(f, g, first, area) ==
    /\ Range(f) \cup Range(g) = first..(first + 3)
    /\ Cardinality(Range(f) \cap Range(g)) = 2
    /\ Area2(sdata._mesh_vertices, f) * Area2(sdata._mesh_vertices, g) > 0
    /\ f[1] = g[1] /\ f[3] = g[2]
    /\ Abs(Area2(sdata._mesh_vertices, f)) + Abs(Area2(sdata._mesh_vertices, g)) = 8 * area

\* the fill of rectangle j: the 4 expanded corners and 2 triangles over them
RectangleFill(j, corners, rows, faces) ==
    /\ Len(corners) = 4
    /\ Len(rows) = 4
    /\ Pick(sdata._mesh_vertices, sdata._mesh_vertices_index, <<j, 1, 0>>) = Doubled(corners)
    /\ Len(faces) = 2
    /\ CoversOnce(faces[1], faces[2], rows[1] - 1, BoxArea(j))

\* the edge of rectangle j: a pair of entries at each of the 4 corners, and 8
\* triangles, two per side, the last two back to the first pair
RectangleEdge(corners, rows, centers, faces) ==
    /\ Len(rows) = 8
    /\ \A k \in 1..4 : centers[2 * k - 1] = corners[k] /\ centers[2 * k] = corners[k]
    /\ Len(faces) = 8
    /\ \A s \in 1..3 : \A f \in {faces[2 * s - 1], faces[2 * s]} :
          JoinsPairs(f, rows[1] - 1 + 2 * (s - 1), rows[1] - 1 + 2 * s)
    /\ JoinsPairs(faces[7], rows[1] + 5, rows[1] - 1)
    /\ JoinsPairs(faces[8], rows[1] + 5, rows[1] - 1)

\* C20: a rectangle added from two opposite corners has a fill mesh of exactly
\* 2 triangles over its 4 expanded corners, covering the rectangle exactly once
\* (area 100 for corners (0,0) and (10,10)), and an edge mesh that is a closed
\* loop with exactly 4 join corners
C20_RectangleMesh ==
    \A j \in RectangleObjects :
        /\ RectangleFill(j, Pick(sdata.vertices, sdata.index, j),
                         RowsTagged(sdata._mesh_vertices_index, <<j, 1, 0>>),
                         Pick(sdata._mesh_faces, sdata._mesh_faces_index, <<j, 1, 0>>))
        /\ RectangleEdge(Pick(sdata.vertices, sdata.index, j),
                         RowsTagged(sdata._mesh_vertices_index, <<j, 1, 1>>),
                         Pick(sdata._mesh_vertices_centers, sdata._mesh_vertices_index, <<j, 1, 1>>),
                         Pick(sdata._mesh_faces, sdata._mesh_faces_index, <<j, 1, 1>>))

\* the rectangle (0,0)-(10,10) has been added after another object, and its two
\* fill triangles have a total area of 100
C20_Witness ==
    /\ op = "_add_rectangles"
    /\ Len(sdata.id) = 2
    /\ sdata.id[2] = 1
    /\ Pick(sdata.vertices, sdata.index, 1) = << <<0, 0>>, <<10, 0>>, <<10, 10>>, <<0, 10>> >>
    /\ BoxArea(1) = 100
    /\ Len(Pick(sdata._mesh_faces, sdata._mesh_faces_index, <<1, 1, 0>>)) = 2

\* the largest z order of the shapes of the collection
TopZOrder(S) == SeqMax([k \in 1..Len(S.shapes) |-> S.shapes[k].z_order])

C19_OpacityRange ==
    \A opacity \in OpacityInputs :
        IF 0 <= opacity /\ opacity <= OpacityOne
        THEN /\ SetOpacityLayer(layer, opacity).raised = ""
             /\ SetOpacityLayer(layer, opacity)._opacity = opacity
        ELSE /\ SetOpacityLayer(layer, opacity).raised = OpacityError
             /\ [SetOpacityLayer(layer, opacity) EXCEPT !.raised = layer.raised] = layer
             /\ SetOpacityData(layer, data, opacity) = data

\* the setter has raised on a layer whose opacity and shapes had been set to 0.5
C19_Witness ==
    /\ op = "opacity"
    /\ layer.raised = OpacityError
    /\ layer._opacity = 5
    /\ layer.opacity_events > 0
    /\ NumShapes = 2
    /\ \A k \in 1..NumShapes : data.shapes[k].opacity = 5

\* the transient interaction state of the layer is reset
TransientReset(L) ==
    /\ ~L._creating
    /\ ~L._is_moving
    /\ ~L._is_selecting
    /\ L._drag_start = <<>>
    /\ L._drag_box = <<>>
    /\ L._fixed_vertex = <<>>
    /\ L._selected_vertex = <<None, None>>

\* C11: after Escape, and after any change of mode that leaves or enters a
\* mode outside select, direct, vertex_insert, vertex_remove, the layer is not
\* creating, moving or selecting and has no drag start, drag box, fixed vertex
\* or grabbed vertex; the layer is never selecting without a drag box
C11_TransientStateReset ==
    /\ TransientReset(on_key_press(layer, data, "Escape", FALSE).layer)
    /\ \A mode \in Modes \ {layer.mode} :
          ~(mode \in Family /\ layer.mode \in Family) =>
              TransientReset(SetModeLayer(layer, mode))
    /\ layer._is_selecting => layer._drag_box # <<>>

\* a path or polygon is being drawn and has at most 2 vertices
DrawingShortPath ==
    /\ layer._creating
    /\ layer.mode \in {"add_path", "add_polygon"}
    /\ Len(VerticesOf(data, layer._selected_vertex[1])) <= 2

\* C12: when a path or polygon that is being drawn and has at most 2 vertices
\* is ended by Escape or by a change of mode, the shape is removed and the
\* number of shapes is what it was before the first click
C12_ShortPathRemoved ==
    DrawingShortPath =>
        /\ Len(on_key_press(layer, data, "Escape", FALSE).data.shapes) = NumShapes - 1
        /\ \A mode \in Modes \ {layer.mode} :
              Len(SetModeData(layer, data, mode).shapes) = NumShapes - 1

\* the layer and collection after space is pressed and released
SpaceRoundTrip(L, S) ==
    on_key_release(on_key_press(L, S, " ", FALSE).layer,
                   on_key_press(L, S, " ", FALSE).data, " ")

\* C13: pressing space in a mode other than pan/zoom sets pan/zoom, and
\* releasing it restores the mode and, on the Shapes layer, the selected shapes
\* of the time of the press; an auto-repeat press changes nothing; a press and
\* release in pan/zoom leaves pan/zoom; the same on the Labels layer
C13_SpaceTogglesPanZoom ==
    /\ on_key_press(layer, data, " ", FALSE).layer.mode = "pan/zoom"
    /\ SpaceRoundTrip(layer, data).layer.mode = layer.mode
    /\ layer.mode # "pan/zoom" =>
          SpaceRoundTrip(layer, data).layer.selected_shapes = layer.selected_shapes
    /\ \A key \in Keys : on_key_press(layer, data, key, TRUE) = Ctx(layer, data)
    /\ LabelsKeyPress(labels, " ", FALSE).mode = "pan_zoom"
    /\ LabelsKeyRelease(LabelsKeyPress(labels, " ", FALSE), " ").mode = labels.mode
    /\ \A key \in LabelKeys : LabelsKeyPress(labels, key, TRUE) = labels

\* space has been released in select mode and has brought back a selection
C13_Witness ==
    /\ op = "on_key_release"
    /\ layer.mode = "select"
    /\ layer._mode_history = "select"
    /\ layer.selected_shapes = <<0>>
    /\ layer._selected_shapes_history = <<0>>
    /\ layer.mode_events = 3

\* R and S agree on every array of the collection but those named
SameArraysBut(S, R, changed) ==
    \A f \in (DOMAIN S) \ ({"shapes"} \cup changed) : R[f] = S[f]

\* array new is array old but at the rows of the set rows, where it holds the
\* rows of values in order
PatchedAt(old, new, rows, values) ==
    /\ Len(new) = Len(old)
    /\ Cardinality(rows) = Len(values)
    /\ \A k \in DOMAIN old :
          new[k] = IF k \in rows THEN values[Cardinality({j \in rows : j <= k})]
                   ELSE old[k]

\* R is what update_edge_color(i, c) (type 1) or update_face_color(i, c)
\* (type 0) must make of S
ColorPost(S, R, i, type, c) ==
    /\ SameArraysBut(S, R, {"_mesh_triangles_colors"})
    /\ R.shapes = IF type = 1 THEN [S.shapes EXCEPT ![i + 1].edge_color = c]
                  ELSE [S.shapes EXCEPT ![i + 1].face_color = c]
    /\ PatchedAt(S._mesh_triangles_colors, R._mesh_triangles_colors,
                 TaggedRows(S._mesh_triangles_index, i, type),
                 Repeat(c, Cardinality(TaggedRows(S._mesh_triangles_index, i, type))))

\* R is what update_edge_width(i, w) must make of S
WidthPost(S, R, i, w) ==
    /\ SameArraysBut(S, R, {"_mesh_vertices"})
    /\ R.shapes = [S.shapes EXCEPT ![i + 1].edge_width = w]
    /\ PatchedAt(S._mesh_vertices, R._mesh_vertices,
                 TaggedRows(S._mesh_vertices_index, i, 1),
                 StrokeVertices(EdgeMesh(S.shapes[i + 1]), w))

\* C23: update_edge_color(i, c) changes only the colors of the triangles tagged
\* (i, edge), update_face_color(i, c) only those of the triangles tagged
\* (i, face), update_edge_width(i, w) only the mesh vertices tagged (i, edge),
\* which become center + w * offset; every other entry of every array, every
\* array length and every other shape are unchanged
C23_StyleUpdatesPatch ==
    \A i \in ShapeIndices :
        /\ \A c \in Colors :
              /\ ColorPost(data, update_edge_color(data, i, c), i, 1, c)
              /\ ColorPost(data, update_face_color(data, i, c), i, 0, c)
        /\ \A w \in Widths : WidthPost(data, update_edge_width(data, i, w), i, w)

\* the edge of rectangle 0 has been colored beside a second shape: its edge
\* triangles are red, its face triangles are not
C23_Witness ==
    /\ op = "update_edge_color"
    /\ NumShapes = 2
    /\ data.shapes[1].shape_type = "rectangle"
    /\ data.shapes[1].edge_color = "red"
    /\ \A k \in DOMAIN data._mesh_triangles_index :
          data._mesh_triangles_index[k] = <<0, 1>> => data._mesh_triangles_colors[k] = "red"
    /\ \E k \in DOMAIN data._mesh_triangles_index :
          data._mesh_triangles_index[k] = <<0, 0>> /\ data._mesh_triangles_colors[k] # "red"

\* R is what a geometry operation on shape i must make of S
GeometryPost(S, R, i) ==
    /\ SameArraysBut(S, R, {"_vertices", "_mesh_vertices"})
    /\ Len(R.shapes) = Len(S.shapes)
    /\ \A j \in DOMAIN S.shapes : j # i + 1 => R.shapes[j] = S.shapes[j]
    /\ Len(R._vertices) = Len(S._vertices)
    /\ \A k \in DOMAIN S._vertices : S._index[k] # i => R._vertices[k] = S._vertices[k]
    /\ Len(R._mesh_vertices) = Len(S._mesh_vertices)
    /\ \A k \in DOMAIN S._mesh_vertices :
          S._mesh_vertices_index[k][1] # i => R._mesh_vertices[k] = S._mesh_vertices[k]

\* C24: shift, scale, rotate, flip and transform of shape i change only the
\* vertex rows whose shape index is i and the mesh vertex rows tagged with
\* shape i; the triangle array, both tag arrays, the triangle colors, the z
\* order arrays, every array length and every row of another shape are unchanged
C24_GeometryUpdatesPatch ==
    \A i \in ShapeIndices :
        /\ \A delta \in Shifts : GeometryPost(data, shift(data, i, delta), i)
        /\ \A f \in Factors, c \in Centers : GeometryPost(data, scale(data, i, f, c), i)
        /\ \A a \in Angles, c \in Centers : GeometryPost(data, rotate(data, i, a, c), i)
        /\ \A axis \in Axes, c \in Centers : GeometryPost(data, flip(data, i, axis, c), i)
        /\ \A m \in Matrices : GeometryPost(data, transform(data, i, m), i)

\* rectangle 0 has been shifted beside a path that kept its place
C24_Witness ==
    /\ op = "shift"
    /\ NumShapes = 2
    /\ data.shapes[1].data = [k \in 1..4 |-> VAdd(RectA[k], <<2, 2>>)]
    /\ VerticesOf(data, 0) = data.shapes[1].data
    /\ VerticesOf(data, 1) = PathA

\* the integers next to 0..N-1 on either side
OutsideIndices == {-NumShapes - 1, -NumShapes, -1, NumShapes, NumShapes + 1} \ ShapeIndices

\* the call raised and left the collection as it was
Rejected(C) == C.raised # "" /\ C.data = data

\* C27: remove_one, edit, update_edge_width, update_edge_color,
\* update_face_color, update_z_order, shift and add with an explicit
\* shape_index, called with an integer index outside 0..N-1, negative ones
\* included, raise an error and leave the shapes list, every shape's attributes
\* and every array as they were
C27_OutOfRangeRejected ==
    \A index \in OutsideIndices :
        /\ Rejected(remove_one_call(data, index, TRUE))
        /\ \A d \in {RectB, LineA} : Rejected(edit_call(data, index, d))
        /\ \A w \in Widths : Rejected(update_edge_width_call(data, index, w))
        /\ \A c \in Colors :
              /\ Rejected(update_edge_color_call(data, index, c))
              /\ Rejected(update_face_color_call(data, index, c))
        /\ \A z \in ZOrders : Rejected(update_z_order_call(data, index, z))
        /\ \A delta \in Shifts : Rejected(shift_call(data, index, delta))
        /\ \A shape \in NewShapes : Rejected(add_call(data, shape, index))

\* the vertices of object j of the store, in array order
ObjectVertices(D, j) == Mask(D.vertices, {k \in DOMAIN D.index : D.index[k] = j})

\* C22: after a shift, scale, flip or rotation of the store, the cached 9-point
\* box of every object is the 9-point box (4 min/max corners, 4 edge midpoints,
\* center, in that order) of the object's current vertices
C22_BoxFollowsVertices ==
    \A j \in 0..(Len(sdata.id) - 1) :
        sdata.boxes[j + 1] = _expand_box(ObjectVertices(sdata, j))

\* C29: after any sequence of shift, scale, flip and rotate, every edge mesh
\* vertex (that is a number) is its stored center plus thickness times its
\* stored offset
C29_CentersOffsetsRebuild ==
    \A k \in DOMAIN sdata._mesh_vertices :
        sdata._mesh_vertices_index[k][3] = 1 /\ ~IsNaN(sdata._mesh_vertices[k]) =>
            sdata._mesh_vertices[k] =
                VAdd(VScale(2, sdata._mesh_vertices_centers[k]),
                     VScale(sdata.thickness, sdata._mesh_vertices_offsets[k]))

\* the z order of the shape that owns mesh triangle number t (from 0)
TriangleZ(S, t) == S.shapes[S._mesh_triangles_index[t + 1][1] + 1].z_order

\* C28: after each refresh the triangle list handed to the renderer holds every
\* mesh triangle of the collection exactly once, with its own color, and the
\* triangles of a shape of higher z order come after (are drawn on top of)
\* those of a shape of lower z order
C28_ViewSliceOrdersTriangles ==
    LET V == _set_view_slice(data)
    IN /\ V.raised = ""
       /\ Len(V.faces) = Len(data._mesh_triangles)
       /\ \A t \in 0..(Len(data._mesh_triangles) - 1) :
             Cardinality({k \in DOMAIN V.picks : V.picks[k] = t}) = 1
       /\ \A k \in DOMAIN V.faces :
             /\ V.faces[k] = At(data._mesh_triangles, V.picks[k])
             /\ V.colors[k] = At(data._mesh_triangles_colors, V.picks[k])
       /\ \A k, l \in DOMAIN V.picks :
             TriangleZ(data, V.picks[k]) < TriangleZ(data, V.picks[l]) => k < l

\* C21: an ellipse is meshed as a closed polyline of exactly 100 segments
\* through 100 distinct boundary points; the fill mesh has the center of the
\* bounding box as vertex 0 and one fan triangle (0, k, k+1) per boundary
\* segment, every index of it is a row of the fill vertices, and no fan
\* triangle has the same boundary point twice
C21_EllipseMesh ==
    tri.called =>
        /\ Len(tri.path) = 100
        /\ Cardinality(Range(tri.path)) = 100
        /\ tri.fill_vertices[1] = <<VAdd(tri.corners[1], tri.corners[2]), 0, 0, 0>>
        /\ Len(tri.fill_faces) = Len(tri.path)
        /\ \A k \in DOMAIN tri.fill_faces :
              /\ tri.fill_faces[k][1] = 0
              /\ tri.fill_faces[k][2] = k
              /\ \A j \in 1..3 : tri.fill_faces[k][j] \in 0..(Len(tri.fill_vertices) - 1)
              /\ At(tri.fill_vertices, tri.fill_faces[k][2])
                    # At(tri.fill_vertices, tri.fill_faces[k][3])

\* the layer is in add_path mode and draws no path
ReadyForPath == layer.mode = "add_path" /\ ~layer._creating /\ layer.raised = ""

RECURSIVE DragTo(_, _)
\* the layer and the collection after drag-move events at the points of the
\* list, in turn
DragTo(C, moves) ==
    IF moves = <<>> THEN C
    ELSE DragTo(on_mouse_move(C.layer, C.data, Head(moves), TRUE), Tail(moves))

\* shape i of T is shape i of S moved by delta: its vertices, its rows of the
\* vertex array and its mesh vertices (which are doubled)
MovedBy(S, T, i, delta) ==
    /\ T.shapes[i + 1] = ShapeShift(S.shapes[i + 1], delta)
    /\ T._index = S._index
    /\ T._mesh_vertices_index = S._mesh_vertices_index
    /\ \A k \in DOMAIN S._index :
          S._index[k] = i => T._vertices[k] = VAdd(S._vertices[k], delta)
    /\ \A k \in DOMAIN S._mesh_vertices_index :
          S._mesh_vertices_index[k][1] = i
              => T._mesh_vertices[k] = VAdd(S._mesh_vertices[k], VScale(2, delta))

\* the button went down in select mode on a shape that is selected, off the
\* handles of the selection box
InteriorPressed ==
    /\ op = "on_mouse_press"
    /\ canvas.button
    /\ layer.mode = "select"
    /\ layer._selected_vertex[1] \in Range(layer.selected_shapes)
    /\ layer._selected_vertex[2] = None
    /\ ~layer._is_moving

\* C25: in select mode, after a press on the interior of a selected shape, at
\* every drag-move event each selected shape and the selection box are
\* shifted by one and the same vector (the pointer's step since the event
\* before, nothing at the first), the shift accumulated since the press is
\* the pointer's displacement since the first drag-move event, and the
\* shapes that are not selected stay where they are
C25_DragTranslates ==
    InteriorPressed =>
        \A moves \in DragMoves :
            LET n == Len(moves)
                before == DragTo(Ctx(layer, data), SubSeq(moves, 1, n - 1))
                after == DragTo(Ctx(layer, data), moves)
                step == IF n = 1 THEN <<0, 0>> ELSE VSub(moves[n], moves[n - 1])
                total == VSub(moves[n], moves[1])
            IN /\ after.layer.selected_shapes = layer.selected_shapes
               /\ after.layer._is_moving
               /\ \A i \in Range(layer.selected_shapes) :
                     /\ MovedBy(before.data, after.data, i, step)
                     /\ MovedBy(data, after.data, i, total)
               /\ after.layer._selected_box =
                     [r \in 1..10 |-> VAdd(before.layer._selected_box[r], VScale(2, step))]
               /\ after.layer._selected_box =
                     [r \in 1..10 |-> VAdd(layer._selected_box[r], VScale(2, total))]
               /\ \A i \in 0..(Len(data.shapes) - 1) :
                     i \notin Range(layer.selected_shapes) => MovedBy(data, after.data, i, <<0, 0>>)

\* a drag from inside the square has taken the square and the line, both
\* selected, by (8, 8): the press, a first move and a move 8 further
C25_Witness ==
    /\ op = "on_mouse_move"
    /\ canvas.button
    /\ layer._is_moving
    /\ layer._selected_vertex[2] = None
    /\ layer.selected_shapes = <<0, 1>>
    /\ data.shapes[1].data = [k \in 1..4 |-> VAdd(DragRect[k], <<8, 8>>)]
    /\ data.shapes[2].data = [k \in 1..2 |-> VAdd(DragLine[k], <<8, 8>>)]

\* C26: in select mode, while a handle h of 0..7 of the selection box is
\* dragged, the anchor is the box point (h+4) mod 8 and, after every
\* drag-move event, that point of the box has the coordinates it had when
\* the anchor was chosen
C26_AnchorKept ==
    /\ op = "on_mouse_move"
    /\ canvas.button
    /\ layer.mode = "select"
    /\ layer._is_moving
    /\ layer.selected_shapes # <<>>
    /\ layer._selected_vertex[2] \in 0..7
    => /\ layer._fixed_index = (layer._selected_vertex[2] + 4) % 8
       /\ layer._selected_box[layer._fixed_index + 1] = layer._fixed_vertex

\* ------------------------------------------- the Surface layer (surface.py)

\* the depth at which the interpreter refuses one more nested call
\* (sys.getrecursionlimit(), 1000 by default: the outcome below is the same
\* for every limit)
RecursionLimit == 4
\* the number of data events counted
MaxSurfaceEvents == 3

\* the vertices of the mesh: no vertex, or the corners of a square (2-D, so
\* that every dimension is displayed)
SurfaceData == {<<>>, <<<<0, 0>>, <<0, 4>>, <<4, 0>>, <<4, 4>>>>}
\* the faces: triples of vertex indices
FaceArrays == {<<>>, <<<<0, 1, 2>>>>, <<<<0, 1, 2>>, <<1, 2, 3>>>>}
\* one value per vertex
ValueArrays == {<<0, 0, 0, 0>>, <<1, 2, 3, 4>>}

NoCall == [name |-> "none", arg |-> <<>>, outcome |-> "returned",
           views0 |-> 0, events0 |-> 0]

\* Surface(data, faces, values), once the constructor has returned; view is
\* what the base class's _update_dims left in _view_faces
Surface(vertices, faces, values, view) ==
    [made |-> TRUE, _data |-> vertices, _faces |-> faces, _values |-> values,
     _view_faces |-> view, views |-> 0, events |-> 0, call |-> NoCall]

\* Surface._set_view_slice for a layer all of whose dimensions are displayed:
\* the viewed faces are all the faces, or none when there is no vertex; one
\* set_data event
Surface_set_view_slice(S) ==
    [S EXCEPT !._view_faces = IF Len(S._data) = 0 THEN <<>> ELSE S._faces,
              !.views = @ + 1]

\* the values setter: store, recompute the view, emit data
values_setter(S, values) ==
    LET stored == [S EXCEPT !._values = values]
        viewed == Surface_set_view_slice(stored)
    IN [viewed EXCEPT !.events = @ + 1]

\* the faces setter, entered at call depth `depth`: its first statement,
\* self.faces = faces, is the setter itself one call deeper; at the recursion
\* limit the interpreter raises RecursionError, which no frame catches, so
\* the statements after the assignment run in no frame
RECURSIVE faces_setter(_, _, _)
faces_setter(S, faces, depth) ==
    IF depth >= RecursionLimit
    THEN [S EXCEPT !.call.outcome = "RecursionError"]
    ELSE LET inner == faces_setter(S, faces, depth + 1)
         IN IF inner.call.outcome = "RecursionError"
            THEN inner
            ELSE LET viewed == Surface_set_view_slice(inner)
                 IN [viewed EXCEPT !.events = @ + 1]

Began(S, name, arg) ==
    [S EXCEPT !.call = [name |-> name, arg |-> arg, outcome |-> "returned",
                        views0 |-> S.views, events0 |-> S.events]]

\* layer.values = values
SetValues ==
    /\ surface.events < MaxSurfaceEvents
    /\ \E values \in ValueArrays :
          surface' = values_setter(Began(surface, "values", values), values)
    /\ op' = "values"
    /\ UNCHANGED <<data, nops, layer, labels, tri, sdata, canvas, pixels, cmap>>

\* layer.faces = faces
SetFaces ==
    /\ \E faces \in FaceArrays :
          surface' = faces_setter(Began(surface, "faces", faces), faces, 1)
    /\ op' = "faces"
    /\ UNCHANGED <<data, nops, layer, labels, tri, sdata, canvas, pixels, cmap>>

InitSurface ==
    /\ data = EmptyList
    /\ op = "init"
    /\ nops = 0
    /\ layer = InitLayer
    /\ labels = InitLabels
    /\ tri = NoTri
    /\ sdata = EmptyData(1)
    /\ canvas = Idle
    /\ pixels = NoPixels
    /\ cmap = NoMap
    /\ \E vertices \in SurfaceData, faces \in FaceArrays, values \in ValueArrays :
          \E view \in {<<>>, faces} :
             surface = Surface(vertices, faces, values, view)

NextSurface == SetValues \/ SetFaces

SpecSurface == InitSurface /\ [][NextSurface]_vars

\* C40: once an assignment to the faces property is over, it has returned,
\* reading faces gives the assigned array, the viewed faces have been
\* recomputed once and the data event has been emitted once
C40_FacesAssignmentStores ==
    surface.made /\ surface.call.name = "faces"
    => /\ surface.call.outcome = "returned"
       /\ surface._faces = surface.call.arg
       /\ surface.views = surface.call.views0 + 1
       /\ surface.events = surface.call.events0 + 1

\* ------------------------------------- Colormap (utils/colormaps/colormap.py)

\* the largest number of colors of a colormap
MaxColors == 3
Palette == {"red", "green", "blue"}
ColorArrays == UNION {[1..n -> Palette] : n \in 1..MaxColors}

\* np.linspace(0, 1, n) for n >= 2, in units of 1/(2(n-1)): 0, 2, .., 2(n-1)
linspace(n) == [k \in 1..n |-> 2 * (k - 1)]

\* Colormap(colors, interpolation='zero'): one control point more than colors
Colormap(colors) ==
    [made |-> TRUE, colors |-> colors, controls |-> linspace(Len(colors) + 1),
     interpolation |-> "zero", called |-> FALSE, value |-> 0,
     result |-> [raised |-> "", index |-> 0, cols |-> ""]]

\* the values mapped: the control points, the mid points between them, and
\* one and two units below the first and above the last control point
MapValues(C) == (0 - 2)..(C.controls[Len(C.controls)] + 2)

\* np.searchsorted(a, v) for sorted a (side='left'): the number of elements
\* of a that are less than v
searchsorted(a, v) == Cardinality({k \in 1..Len(a) : a[k] < v})

\* np.clip
clip(x, lo, hi) == IF x < lo THEN lo ELSE IF x > hi THEN hi ELSE x

\* the bin index of Colormap.map in ZERO mode
ZeroIndex(C, v) == clip(searchsorted(C.controls, v) - 1, 0, Len(C.colors))

\* Colormap.map(value) in ZERO mode: colors[index]; numpy raises IndexError
\* for an index that is not a row of colors
map(C, v) ==
    LET index == ZeroIndex(C, v)
    IN IF index \in 0..(Len(C.colors) - 1)
       THEN [raised |-> "", index |-> index, cols |-> C.colors[index + 1]]
       ELSE [raised |-> "IndexError", index |-> index, cols |-> ""]

\* cmap.map(value)
Map ==
    /\ \E v \in MapValues(cmap) :
          cmap' = [cmap EXCEPT !.called = TRUE, !.value = v, !.result = map(cmap, v)]
    /\ op' = "map"
    /\ UNCHANGED <<data, nops, layer, labels, tri, sdata, canvas, pixels, surface>>

InitMap ==
    /\ data = EmptyList
    /\ op = "init"
    /\ nops = 0
    /\ layer = InitLayer
    /\ labels = InitLabels
    /\ tri = NoTri
    /\ sdata = EmptyData(1)
    /\ canvas = Idle
    /\ pixels = NoPixels
    /\ surface = NoSurface
    /\ \E colors \in ColorArrays : cmap = Colormap(colors)

NextMap == Map

SpecMap == InitMap /\ [][NextMap]_vars

\* C39: Colormap.map in zero mode with N colors and N+1 control points
\* returns for every value the color of one bin: the index it uses is in
\* 0..N-1, and a value beyond the last control point gets the last color
C39_ZeroModeIndexInRange ==
    cmap.made /\ cmap.called
    => /\ cmap.result.raised = ""
       /\ cmap.result.index \in 0..(Len(cmap.colors) - 1)
       /\ cmap.result.cols = cmap.colors[cmap.result.index + 1]
       /\ cmap.value > cmap.controls[Len(cmap.controls)]
          => cmap.result.cols = cmap.colors[Len(cmap.colors)]

\* ----------------------- the Labels layer's label image (_labels_layer/model.py)

\* the label image has ImageSide rows and ImageSide columns
ImageSide == 2
Pix == (0..(ImageSide - 1)) \X (0..(ImageSide - 1))
\* the largest label of an image handed to the constructor
MaxInitLabel == 1
\* the largest label that is selected
MaxLabel == 2
BrushSizes == {2, 10}

\* np.max(label_image)
ImageMax(image) == CHOOSE m \in {image[p] : p \in Pix} : \A p \in Pix : image[p] <= m

\* Labels(label_image): _max_label is taken here; selected label 0, both
\* flags set, brush size 10
LabelsImage(image) ==
    [made |-> TRUE, _raw_image |-> image, _max_label |-> ImageMax(image),
     _selected_label |-> 0, _contiguous |-> TRUE, _brush_size |-> 10,
     last |-> "init"]

\* the displayed image _raw_image / _max_label (the raw image itself when
\* _max_label is 0) lies in [0, 1] at pixel p
DisplayedInUnit(P, p) ==
    IF P._max_label = 0 THEN P._raw_image[p] <= 1
    ELSE P._raw_image[p] <= P._max_label

\* Labels._to_pix for an integer position: clip(round(pos), 0, shape[axis])
_to_pix(pos) == IF pos < 0 THEN 0 ELSE IF pos > ImageSide THEN ImageSide ELSE pos

\* Labels.paint on a 2-D image, even brush size: the pixels of the slice
\* [_to_pix(c - size/2), _to_pix(c + size/2)) on both axes get new_label;
\* _max_label is read, not written
paint(P, coord, new_label) ==
    LET half == P._brush_size \div 2
        In(c, x) == _to_pix(c - half) <= x /\ x < _to_pix(c + half)
    IN [P EXCEPT !._raw_image =
            [p \in Pix |-> IF In(coord[1], p[1]) /\ In(coord[2], p[2])
                           THEN new_label ELSE @[p]],
                 !.last = "paint"]

\* the pixels next to p (the default structure of ndi.label)
Neighbours(p) ==
    {q \in Pix : (q[1] = p[1] /\ (q[2] = p[2] + 1 \/ q[2] = p[2] - 1))
              \/ (q[2] = p[2] /\ (q[1] = p[1] + 1 \/ q[1] = p[1] - 1))}

RECURSIVE Grow(_, _)
Grow(matches, comp) ==
    LET next == comp \cup {q \in matches : \E p \in comp : q \in Neighbours(p)}
    IN IF next = comp THEN comp ELSE Grow(matches, next)

\* the connected component of matches that holds p
Component(matches, p) == Grow(matches, {p} \cap matches)

\* Labels.fill on a 2-D image: the pixels that hold old_label, only those
\* connected to coord when contiguous, get new_label; _max_label is read,
\* not written
fill(P, coord, old_label, new_label) ==
    LET all == {p \in Pix : P._raw_image[p] = old_label}
        matches == IF P._contiguous THEN Component(all, coord) ELSE all
    IN [P EXCEPT !._raw_image = [p \in Pix |-> IF p \in matches THEN new_label ELSE @[p]],
                 !.last = "fill"]

\* layer.selected_label = label
SelectLabel ==
    /\ \E label \in 0..MaxLabel :
          pixels' = [pixels EXCEPT !._selected_label = label, !.last = "selected_label"]
    /\ op' = "selected_label"
    /\ UNCHANGED <<data, nops, layer, labels, tri, sdata, canvas, surface, cmap>>

\* layer.contiguous = flag, layer.brush_size = size
SetBrush ==
    /\ \E flag \in BOOLEAN, size \in BrushSizes :
          pixels' = [pixels EXCEPT !._contiguous = flag, !._brush_size = size,
                                   !.last = "brush"]
    /\ op' = "brush"
    /\ UNCHANGED <<data, nops, layer, labels, tri, sdata, canvas, surface, cmap>>

\* a press in paint mode at coord: paint with the selected label
Paint ==
    /\ \E coord \in Pix : pixels' = paint(pixels, coord, pixels._selected_label)
    /\ op' = "paint"
    /\ UNCHANGED <<data, nops, layer, labels, tri, sdata, canvas, surface, cmap>>

\* a press in fill mode at coord: fill the label under the pointer with the
\* selected label
Fill ==
    /\ \E coord \in Pix :
          pixels' = fill(pixels, coord, pixels._raw_image[coord], pixels._selected_label)
    /\ op' = "fill"
    /\ UNCHANGED <<data, nops, layer, labels, tri, sdata, canvas, surface, cmap>>

InitPixels ==
    /\ data = EmptyList
    /\ op = "init"
    /\ nops = 0
    /\ layer = InitLayer
    /\ labels = InitLabels
    /\ tri = NoTri
    /\ sdata = EmptyData(1)
    /\ canvas = Idle
    /\ surface = NoSurface
    /\ cmap = NoMap
    /\ \E image \in [Pix -> 0..MaxInitLabel] : pixels = LabelsImage(image)

NextPixels == SelectLabel \/ SetBrush \/ Paint \/ Fill

SpecPixels == InitPixels /\ [][NextPixels]_vars

\* C38: after any sequence of paint and fill operations with any selected
\* label, every value of the raw label image is at most the stored maximum
\* label, and every value of the displayed image lies in [0, 1]
C38_RawWithinMaxLabel ==
    pixels.made
    => \A p \in Pix : /\ pixels._raw_image[p] <= pixels._max_label
                      /\ DisplayedInUnit(pixels, p)

\* ------------------------------------ the controller with all of its modes

\* the events of one run of SpecEdit
MaxEditEvents == 4
\* the shapes of a collection of SpecEdit
MaxEditShapes == 3
\* a triangle and the box of an ellipse below it
EditTriangle == << <<0, 0>>, <<16, 0>>, <<16, 16>> >>
EditEllipse == _expand_rectangle(<< <<0, 24>>, <<16, 40>> >>)
EditLists ==
    {<<Shape("rectangle", DragRect, 1, "black", "white", 0),
       Shape("line", DragLine, 1, "black", "white", 1)>>,
     <<Shape("polygon", EditTriangle, 1, "black", "white", 0),
       Shape("ellipse", EditEllipse, 1, "black", "white", 1)>>}
\* the points of the mouse events: inside the upper shape, on its lower right
\* corner, inside the lower shape, and off both shapes
EditPoints == {<<12, 4>>, <<16, 16>>, <<8, 32>>, <<24, 24>>}
EditSelections == {<<>>, <<0>>, <<1>>, <<0, 1>>, <<1, 0>>}
\* the keys pressed: the other modes are entered before the run begins
EditKeys == {" ", "Escape", "Backspace", "a", "s", "t", "x"}

\* every selected shape is in the collection, and none is selected twice
SelectionValid(L, S) ==
    /\ \A k \in DOMAIN L.selected_shapes : L.selected_shapes[k] \in 0..(Len(S.shapes) - 1)
    /\ \A j, k \in DOMAIN L.selected_shapes : j # k => L.selected_shapes[j] # L.selected_shapes[k]

\* the grabbed vertex, if any, is a vertex of a shape of the collection
GrabValid(L, S) ==
    L._selected_vertex[1] # None /\ L._selected_vertex[2] # None
        => /\ L._selected_vertex[1] \in 0..(Len(S.shapes) - 1)
           /\ L._selected_vertex[2] < Len(VerticesOf(S, L._selected_vertex[1]))

\* the handlers are followed while the selection names shapes of the
\* collection, no handler has raised and the collection is within the bounds
EditModelled(L, S) ==
    /\ SelectionValid(L, S)
    /\ L.raised = ""
    /\ nops < MaxEditEvents
    /\ ~HasNaN(S)

EditBounded(C) == Len(C.data.shapes) <= MaxEditShapes

\* the handler's context C is within the bounds and the handler has returned
HandledEditBounded(C) == EditBounded(C) /\ Handled(C)

\* on_mouse_press is modelled in all modes but for the handles of the
\* selection box and for a later press in add_path or add_polygon mode on a
\* path that is gone
EditPressModelled(L, S) ==
    /\ L.mode \in {"add_path", "add_polygon"} /\ L._creating => GrabValid(L, S)

EditPress ==
    /\ ~canvas.button
    /\ EditModelled(layer, data)
    /\ EditPressModelled(layer, data)
    /\ \E coord \in EditPoints, shifted \in BOOLEAN :
          /\ HandledEditBounded(on_mouse_press(layer, data, coord, shifted))
    /\ canvas' = [canvas EXCEPT !.button = TRUE]
    /\ op' = "on_mouse_press"
    /\ nops' = nops + 1
    /\ UNCHANGED <<labels, tri, sdata, pixels, surface, cmap>>

\* a drag move is modelled where a vertex of a shape is dragged in direct
\* mode or while a path is drawn, and where a rubber band is drawn
EditMoveModelled(L, S) ==
    \/ L.selected_shapes = <<>> /\ L.mode \in Family
    \/ /\ L.mode \in {"direct", "add_path", "add_polygon"}
       /\ L.selected_shapes # <<>>
       /\ GrabValid(L, S)
    \/ L.mode \in {"vertex_insert", "vertex_remove"}

EditMove ==
    /\ canvas.button \/ (layer.mode \in {"add_path", "add_polygon"} /\ layer._creating)
    /\ EditModelled(layer, data)
    /\ EditMoveModelled(layer, data)
    /\ \E coord \in EditPoints :
          /\ Handled(on_mouse_move(layer, data, coord, canvas.button))
    /\ op' = "on_mouse_move"
    /\ nops' = nops + 1
    /\ UNCHANGED <<labels, tri, sdata, canvas, pixels, surface, cmap>>

EditRelease ==
    /\ canvas.button
    /\ EditModelled(layer, data)
    /\ layer.mode \in {"select", "direct"} /\ layer._is_selecting => layer._drag_box # <<>>
    /\ \E coord \in EditPoints, shifted \in BOOLEAN :
          /\ Handled(on_mouse_release(layer, data, coord, shifted))
    /\ canvas' = [canvas EXCEPT !.button = FALSE]
    /\ op' = "on_mouse_release"
    /\ nops' = nops + 1
    /\ UNCHANGED <<labels, tri, sdata, pixels, surface, cmap>>

EditKeyPress ==
    /\ EditModelled(layer, data)
    /\ \E key \in EditKeys :
          /\ key = " " => ~canvas.space
          /\ Handled(on_key_press(layer, data, key, FALSE))
          /\ canvas' = [canvas EXCEPT !.space = @ \/ key = " "]
    /\ op' = "on_key_press"
    /\ nops' = nops + 1
    /\ UNCHANGED <<labels, tri, sdata, pixels, surface, cmap>>

EditKeyRelease ==
    /\ canvas.space
    /\ EditModelled(layer, data)
    /\ Handled(on_key_release(layer, data, " "))
    /\ canvas' = [canvas EXCEPT !.space = FALSE]
    /\ op' = "on_key_release"
    /\ nops' = nops + 1
    /\ UNCHANGED <<labels, tri, sdata, pixels, surface, cmap>>

\* Shapes(data) in a mode set by a key, with a selection made in a mode that
\* keeps one; the run begins there or with the space key pressed there and
\* still held
InitEdit ==
    /\ \E list \in EditLists : data = set(EmptyList, list)
    /\ \E mode \in Modes, list \in EditSelections, held \in BOOLEAN :
          LET made == _select(SetSelection(SetModeLayer(InitLayer, mode), data, list))
          IN /\ mode \notin Family => list = <<>>
             /\ held => mode # "pan/zoom"
             /\ layer = IF held THEN on_key_press(made, data, " ", FALSE).layer ELSE made
             /\ canvas = [Idle EXCEPT !.space = held]
    /\ op = "init"
    /\ nops = 0
    /\ labels = InitLabels
    /\ tri = NoTri
    /\ sdata = EmptyData(1)
    /\ pixels = NoPixels /\ surface = NoSurface /\ cmap = NoMap

NextEdit == EditPress \/ EditMove \/ EditRelease \/ EditKeyPress \/ EditKeyRelease

SpecEdit == InitEdit /\ [][NextEdit]_vars

Unselected(L, S) ==
    Mask([k \in 1..Len(S.shapes) |-> k - 1],
         {k \in 1..Len(S.shapes) : (k - 1) \notin Range(L.selected_shapes)})

\* C32: remove_selected (Backspace) with the selection S removes exactly the
\* shapes of S, whatever the order of S: the collection then holds the shapes
\* that were not selected, in their order and numbered from 0, and the
\* selection and the hover shape are empty
C32_RemoveSelectedExact ==
    SelectionValid(layer, data) /\ ~HasNaN(data)
    => LET after == on_key_press(layer, data, "Backspace", FALSE)
           kept == Unselected(layer, data)
       IN /\ after.data.shapes = [j \in 1..Len(kept) |-> data.shapes[kept[j] + 1]]
          /\ \A j \in 1..Len(kept) :
                VerticesOf(after.data, j - 1) = VerticesOf(data, kept[j])
          /\ Range(after.data._index) \subseteq 0..(Len(kept) - 1)
          /\ {after.data._mesh_vertices_index[k][1] : k \in DOMAIN after.data._mesh_vertices_index}
                \subseteq 0..(Len(kept) - 1)
          /\ {after.data._mesh_triangles_index[k][1] : k \in DOMAIN after.data._mesh_triangles_index}
                \subseteq 0..(Len(kept) - 1)
          /\ after.layer.selected_shapes = <<>>
          /\ after.layer._hover_shapes = <<None, None>>

\* Backspace has removed the selected square and left the line as shape 0
C32_Witness ==
    /\ op = "on_key_press"
    /\ Len(data.shapes) = 1
    /\ data.shapes[1].shape_type = "line"
    /\ data.shapes[1].data = DragLine
    /\ data._index = <<0, 0>>
    /\ layer.selected_shapes = <<>>
    /\ layer._hover_shapes = <<None, None>>

\* the selected shapes that are no ellipses
Insertable(L, S) ==
    {i \in Range(L.selected_shapes) : S.shapes[i + 1].shape_type # "ellipse"}

\* the list `longer` is the list `shorter` with point put in at one place
InsertedOnce(longer, shorter, point) ==
    /\ Len(longer) = Len(shorter) + 1
    /\ \E k \in 1..Len(longer) : longer[k] = point /\ Delete(longer, k - 1) = shorter

\* C33: a pointer-down in vertex_insert mode with a selection that holds a
\* shape other than an ellipse inserts one vertex, at the pointer, into one
\* selected shape that is no ellipse, the one that owns the nearest segment,
\* and leaves the vertices of every other shape; a line becomes a path of 3
\* vertices; ellipses are never modified; with an empty selection nothing
\* changes
C33_VertexInsertOne ==
    /\ layer.mode = "vertex_insert"
    /\ ~canvas.button
    /\ SelectionValid(layer, data)
    /\ ~HasNaN(data)
    => \A coord \in EditPoints :
          LET pressed == on_mouse_press(layer, data, coord, FALSE)
              lines == AllLines(data, layer.selected_shapes)
              owner == lines[point_to_lines(coord, lines) + 1].shape
          IN IF Insertable(layer, data) = {}
             THEN pressed.data = data
             ELSE /\ Len(pressed.data.shapes) = Len(data.shapes)
                  /\ owner \in Insertable(layer, data)
                  /\ InsertedOnce(VerticesOf(pressed.data, owner), VerticesOf(data, owner), coord)
                  /\ pressed.data.shapes[owner + 1].data = VerticesOf(pressed.data, owner)
                  /\ \A i \in 0..(Len(data.shapes) - 1) :
                        i # owner => /\ VerticesOf(pressed.data, i) = VerticesOf(data, i)
                                     /\ pressed.data.shapes[i + 1] = data.shapes[i + 1]
                  /\ pressed.data.shapes[owner + 1].shape_type =
                        IF data.shapes[owner + 1].shape_type = "line" THEN "path"
                        ELSE data.shapes[owner + 1].shape_type
                  /\ data.shapes[owner + 1].shape_type = "line"
                        => Len(VerticesOf(pressed.data, owner)) = 3

\* a press in vertex_insert mode has put a third vertex into the selected
\* line, which is a path now, beside the square
C33_Witness ==
    /\ op = "on_mouse_press"
    /\ layer.mode = "vertex_insert"
    /\ Len(data.shapes) = 2
    /\ data.shapes[1].data = DragRect
    /\ data.shapes[2].shape_type = "path"
    /\ Len(data.shapes[2].data) = 3
    /\ \E k \in 1..3 : Delete(data.shapes[2].data, k - 1) = DragLine

\* C34: a pointer-down in vertex_remove mode on a vertex of a selected shape
\* that is no ellipse removes that one vertex when the shape has more than 2
\* vertices, a polygon of 3 vertices becoming a path of 2, and removes the
\* whole shape when it has 2 vertices or fewer; a pointer-down on a vertex of
\* an ellipse or away from every vertex changes no shape
C34_VertexRemove ==
    /\ layer.mode = "vertex_remove"
    /\ ~canvas.button
    /\ SelectionValid(layer, data)
    /\ ~HasNaN(data)
    => \A coord \in EditPoints :
          LET pressed == on_mouse_press(layer, data, coord, FALSE)
              at == VertexAt(layer, data, coord)
              n == Len(data.shapes)
          IN IF at = <<None, None>> \/ data.shapes[at[1] + 1].shape_type = "ellipse"
             THEN pressed.data = data
             ELSE IF Len(VerticesOf(data, at[1])) > 2
             THEN /\ Len(pressed.data.shapes) = n
                  /\ VerticesOf(pressed.data, at[1]) = Delete(VerticesOf(data, at[1]), at[2])
                  /\ pressed.data.shapes[at[1] + 1].data = VerticesOf(pressed.data, at[1])
                  /\ pressed.data.shapes[at[1] + 1].shape_type =
                        IF data.shapes[at[1] + 1].shape_type = "polygon"
                           /\ Len(VerticesOf(data, at[1])) = 3
                        THEN "path"
                        ELSE data.shapes[at[1] + 1].shape_type
                  /\ \A i \in 0..(n - 1) :
                        i # at[1] => /\ VerticesOf(pressed.data, i) = VerticesOf(data, i)
                                     /\ pressed.data.shapes[i + 1] = data.shapes[i + 1]
             ELSE /\ Len(pressed.data.shapes) = n - 1
                  /\ \A i \in 0..(n - 2) :
                        pressed.data.shapes[i + 1] = data.shapes[IF i < at[1] THEN i + 1 ELSE i + 2]

\* C35: after every pointer or key event of the controller, in any order and
\* any mode, the selection holds only indices of shapes of the collection
\* (0 <= i < number of shapes) and holds no index twice
C35_SelectionExists == SelectionValid(layer, data)

\* a click at the point coord: the button goes down and up there with no
\* move between
ClickAt(L, S, coord, shifted) ==
    on_mouse_release(on_mouse_press(L, S, coord, shifted).layer,
                     on_mouse_press(L, S, coord, shifted).data, coord, shifted)

\* C36: in select or direct mode with no drag in progress, a click with Shift
\* held on the body of a shape toggles that shape in the selection and leaves
\* the other selected shapes as they were; a click without Shift leaves the
\* selection equal to exactly the shape under the pointer, or empty when no
\* shape is under it
C36_ClickSelects ==
    /\ layer.mode \in {"select", "direct"}
    /\ ~canvas.button
    /\ ~layer._is_moving /\ ~layer._is_selecting
    /\ SelectionValid(layer, data)
    /\ ~HasNaN(data)
    => \A coord \in EditPoints :
          LET hit == ShapesHit(data, coord)
              plain == ClickAt(layer, data, coord, FALSE).layer.selected_shapes
              held == ClickAt(layer, data, coord, TRUE).layer.selected_shapes
          IN /\ IF hit = {} THEN plain = <<>> ELSE \E m \in hit : plain = <<m>>
             /\ hit # {} /\ ShapeAt(layer, data, coord).value[2] = None =>
                   \E m \in hit :
                      /\ Range(held) \ {m} = Range(layer.selected_shapes) \ {m}
                      /\ m \in Range(held) <=> m \notin Range(layer.selected_shapes)
                      /\ Len(held) = Cardinality(Range(held))

\* every line has exactly 2 vertices and every polygon at least 3
KindCounts(S) ==
    \A i \in 0..(Len(S.shapes) - 1) :
       /\ S.shapes[i + 1].shape_type = "line" => Len(VerticesOf(S, i)) = 2
       /\ S.shapes[i + 1].shape_type = "polygon" => Len(VerticesOf(S, i)) >= 3

\* an event that keeps the number of shapes changes the kind of a shape only
\* from line to path by a vertex insert, from path to polygon by the second
\* click in add_polygon mode, and from polygon to path by the removal of a
\* vertex from a polygon of 3
KindStep ==
    Len(data'.shapes) = Len(data.shapes) =>
       \A i \in 0..(Len(data.shapes) - 1) :
          LET was == data.shapes[i + 1].shape_type
              is == data'.shapes[i + 1].shape_type
          IN was # is =>
                /\ op' = "on_mouse_press"
                /\ \/ /\ was = "line" /\ is = "path"
                      /\ layer.mode = "vertex_insert"
                      /\ Len(VerticesOf(data', i)) = 3
                   \/ /\ was = "path" /\ is = "polygon"
                      /\ layer.mode = "add_polygon"
                      /\ Len(VerticesOf(data, i)) = 2
                   \/ /\ was = "polygon" /\ is = "path"
                      /\ layer.mode = "vertex_remove"
                      /\ Len(VerticesOf(data, i)) = 3

\* C37: after any sequence of controller events every shape of kind line has
\* exactly 2 vertices and every shape of kind polygon has at least 3, and the
\* kind of a shape changes only from line to path on a vertex insert, from
\* path to polygon on the second click in add_polygon mode, and from polygon
\* to path on the removal of a vertex from a polygon of 3 vertices
C37_KindsKeepCounts == [](KindCounts(data)) /\ [][KindStep]_vars

====
